---------------------------- MODULE Spec2Model ----------------------------
(***************************************************************************)
(* A model of VoiceInjector's push-to-talk pipeline: the orchestrator      *)
(* (src/src/app.py), the audio capture buffer (src/src/audio/capture.py),  *)
(* the speaker mute control (src/src/audio/mute_control.py), the STT       *)
(* engine's transcribe wrapper (src/src/stt/engine.py) and the text        *)
(* injector's normalisation (src/src/injector/text_injector.py).           *)
(*                                                                         *)
(* Audio: the n-th chunk the device delivers into a buffering session has  *)
(* the value n, so the chunks of one session are pairwise distinct.  A     *)
(* chunk's bytes are the one-element sequence <<n>>, one block of          *)
(* ChunkBytes bytes; b"".join is concatenation of those sequences and the  *)
(* byte length of a bytes value is its number of blocks * ChunkBytes.      *)
(* Text: a sequence of code points.                                        *)
(*                                                                         *)
(* `tasks` lists the background threads that are alive, in the order in    *)
(* which _on_ptt_release started them; a thread leaves the list when       *)
(* _process_audio returns.  A thread is named by its position in the list. *)
(***************************************************************************)
EXTENDS Integers, Sequences, FiniteSets, TLC

(***************************************************************************)
(* Bounds of the model.                                                    *)
(***************************************************************************)
\* Background threads in flight at once, and chunks delivered into one session.
MaxTasks == 2
MaxChunks == 17
MaxLifeTasks == 1
\* In the thread-level specification: hotkey events dispatched in a run, and
\* chunks delivered into one session.
MaxDispatches == 4
MaxThreadChunks == 2
\* Chunks fed to the voice activity detector in a run.
MaxVadChunks == 30
\* Longest text handed to the injector.
MaxTextLen == 3
\* Chunks the device delivers to an AudioCapture used on its own.
MaxCapChunks == 3
\* Device streams opened while an earlier one is still open.
MaxStreams == 2
\* With a level listener: chunks of any loudness in a run, and the length of
\* the run of silent chunks that may precede them.
MaxLevelChunks == 4
SilenceRun == 2489

(***************************************************************************)
(* Program constants.                                                      *)
(***************************************************************************)
SampleRate == 16000
ChunkDurationMs == 30
MinAudioBytes == 1000
SttMinAudioBytes == 1000

\* AudioCapture.__init__: frames per chunk; each frame is one int16 sample.
FramesPerChunk == (SampleRate * ChunkDurationMs) \div 1000
ChunkBytes == FramesPerChunk * 2
\* STTEngine.transcribe: min_samples = int(sample_rate * 0.5)
MinSamples == SampleRate \div 2

\* Code points the injector tests for: " " and "\n".
SPACE == 32
NEWLINE == 10
\* VoiceActivityDetector.process_chunk: consecutive speech chunks that start a
\* segment.
ActivationChunks == 3
\* TextInjector: the Enter key's virtual-key code 0x0D.
VK_RETURN == 13
\* KEYBDINPUT.wScan is a ctypes WORD: 16 bits.
WordRange == 65536
\* AudioCapture: _rms_peak starts at 50.0, decays by the factor 0.998 and
\* counts above the floor 0.1; values are kept in thousandths.
DefaultRmsPeak == 50000
DecayPerMille == 998
PeakFloor == 100
LevelOne == 1000

VARIABLES
    started,            \* start() has been called
    running,            \* VoiceInjectorApp._running
    listening,          \* HotkeyManager._listener is not None
    is_recording,       \* VoiceInjectorApp._is_recording
    processing_lock,    \* VoiceInjectorApp._processing_lock: 0 free, else the holder
    tasks,              \* the background threads that are alive, oldest first
    stream_open,        \* AudioCapture._is_recording (a device stream is held)
    is_buffering,       \* AudioCapture._is_buffering
    audio_buffer,       \* AudioCapture._audio_buffer
    nDelivered,         \* chunks delivered since buffering was last started
    lastResult,         \* the bytes the last stop_buffering of this session returned
    mute_enabled,       \* MuteControl.enabled
    mute_initialized,   \* MuteControl._initialized
    was_muted_before,   \* MuteControl._was_muted_before
    sysMuted,           \* the OS endpoint's mute state (IAudioEndpointVolume)
    preMuted,           \* the endpoint's mute state outside the app's sessions
    current_task,       \* STTEngine._current_task
    current_mode,       \* SystemTray._current_mode and OverlayWindow._mode
    trayStatus,         \* SystemTray._current_status
    overlayCmd,         \* the last command posted to the overlay
    add_trailing_space,   \* TextInjector.add_trailing_space
    add_trailing_newline, \* TextInjector.add_trailing_newline
    hotkey_active,      \* "ptt" \in HotkeyManager._active_hotkeys
    nDispatched,        \* handler threads the hotkey manager has started so far
    handlers,           \* the handler threads that are alive, in dispatch order
    vad,                \* the VoiceActivityDetector's fields
    vadOut,             \* what the detector returned last and the stream fed to it
    inj,                \* the last call of the TextInjector made on its own
    rms_peak,           \* AudioCapture._rms_peak, in thousandths
    capture_lock,       \* AudioCapture._lock: "free" or the thread holding it
    stream,             \* AudioCapture._stream is not None
    streams,            \* device streams that are open (opened and not closed)
    cap,                \* the threads using an AudioCapture on its own
    stt,                \* a transcribe call made on an STTEngine on its own
    mark                \* one background thread singled out while it waits

vars == <<started, running, listening, is_recording, processing_lock, tasks,
          stream_open, is_buffering, audio_buffer, nDelivered, lastResult,
          mute_enabled, mute_initialized, was_muted_before, sysMuted, preMuted,
          current_task, current_mode, trayStatus, overlayCmd, add_trailing_space,
          add_trailing_newline, hotkey_active, nDispatched, handlers, vad,
          vadOut, inj, rms_peak, capture_lock, stream, streams, cap, stt, mark>>

appVars == <<started, running, listening, is_recording>>
sttVars == <<current_task, current_mode>>
hkVars == <<hotkey_active, nDispatched, handlers>>
devVars == <<rms_peak, capture_lock, stream, streams>>
unitVars == <<vad, vadOut, inj, cap, stt, devVars>>
cfgVars == <<add_trailing_space, add_trailing_newline>>
lockVars == <<processing_lock, tasks, mark>>
audioVars == <<stream_open, is_buffering, audio_buffer>>
muteVars == <<mute_enabled, mute_initialized, was_muted_before, sysMuted>>
uiVars == <<trayStatus, overlayCmd>>
chunkVars == <<nDelivered, lastResult>>

TaskIds == 1..MaxTasks

\* Faulty variant: the thread starts inside the body without taking the lock.
NewTaskNoLock(audio_data) ==
    [pc |-> "transcribe", audio |-> audio_data, text |-> <<>>,
     outcome |-> "none", errorShown |-> FALSE, handed |-> <<>>]

\* A background thread: where it is in _process_audio, its audio_data argument
\* (until transcribe has consumed it), the text transcribe returned, what happened
\* inside transcribe, whether the thread went through the error display, and the
\* texts it handed to inject_text_fast with what the injector typed for each.
NewTask(audio_data) ==
    [pc |-> "wait", audio |-> audio_data, text |-> <<>>, outcome |-> "none",
     errorShown |-> FALSE, handed |-> <<>>]

\* What the speech model can do with one recording: fail, or return raw text
\* (Whisper's segment text, here empty, blank, or a Hangul syllable after a space).
ModelOutcomes ==
    {[ok |-> FALSE, text |-> <<>>]} \cup
    {[ok |-> TRUE, text |-> x] : x \in {<<>>, <<32>>, <<32, 54620>>}}

\* What the translation collaborator can do: be absent, fail, return nothing,
\* or return English text.
TranslateOutcomes ==
    {[kind |-> "none", text |-> <<>>], [kind |-> "fail", text |-> <<>>],
     [kind |-> "ok", text |-> <<>>], [kind |-> "ok", text |-> <<97>>],
     [kind |-> "ok", text |-> <<97, 32>>]}

\* The collaborators' behaviour during one transcribe call: the conversion of
\* the bytes raises, or it succeeds and the model fails or returns a text; the
\* translation collaborator matters only for a text that is not blank.  A
\* collaborator the call does not reach is left at a fixed value.
SttEnvs ==
    LET unreached == [kind |-> "none", text |-> <<>>]
        reaches(m) == m.ok /\ \E i \in 1..Len(m.text) : m.text[i] \notin {32, 10}
    IN  {[convert |-> "raise", model |-> [ok |-> FALSE, text |-> <<>>],
          translate |-> unreached]}
        \cup {[convert |-> "ok", model |-> m, translate |-> unreached] :
                  m \in {x \in ModelOutcomes : ~reaches(x)}}
        \cup {[convert |-> "ok", model |-> m, translate |-> tr] :
                  m \in {x \in ModelOutcomes : reaches(x)}, tr \in TranslateOutcomes}

(***************************************************************************)
(* Pure helpers.                                                           *)
(***************************************************************************)

\* b"".join(chunks)
RECURSIVE Join(_)
Join(chunks) ==
    IF chunks = <<>> THEN <<>>
    ELSE IF Len(chunks) = 1 THEN chunks[1]
    ELSE LET h == Len(chunks) \div 2
         IN  Join(SubSeq(chunks, 1, h)) \o Join(SubSeq(chunks, h + 1, Len(chunks)))

\* len(bytes)
ByteLen(data) == Len(data) * ChunkBytes

\* The n-th chunk of a session: raw_bytes = bytes(indata)
ChunkOf(n) == <<n>>

\* str.strip() on a sequence of code points
IsWs(c) == c = SPACE \/ c = NEWLINE

RECURSIVE LStrip(_)
LStrip(s) ==
    IF s # <<>> /\ IsWs(Head(s)) THEN LStrip(Tail(s)) ELSE s

RECURSIVE RStrip(_)
RStrip(s) ==
    IF s # <<>> /\ IsWs(s[Len(s)]) THEN RStrip(SubSeq(s, 1, Len(s) - 1)) ELSE s

Strip(s) == RStrip(LStrip(s))

\* str.endswith(c) for a one-character suffix
EndsWith(s, c) == s # <<>> /\ s[Len(s)] = c

(***************************************************************************)
(* STTEngine (src/src/stt/engine.py).                                      *)
(***************************************************************************)

\* Faulty variant: the toggle only ever switches to translate.
ToggleTaskStuck(task) == "translate"

\* STTEngine.toggle_task
ToggleTask(task) ==
    IF task = "transcribe" THEN "translate" ELSE "transcribe"

\* STTEngine._translate_text
TranslateText(text, tr) ==
    IF tr.kind = "none" THEN text
    ELSE IF Strip(text) = <<>> THEN text
    ELSE IF tr.kind = "fail" THEN text
    ELSE IF tr.text # <<>> THEN tr.text
    ELSE text

\* The language handed to the model: "ko" in translate mode, else self.language
\* (None: auto-detect).
WhisperLang(task) == IF task = "translate" THEN "ko" ELSE "auto"

\* STTEngine.transcribe.  langTask is the value of _current_task read when the
\* language is chosen, stepTask the value read when the translation step is
\* decided.  The result says whether the call raised, the text returned, and what
\* happened on the way.
Transcribe(audio, langTask, stepTask, env) ==
    IF audio = <<>> \/ ByteLen(audio) < SttMinAudioBytes
    THEN [raised |-> FALSE, text |-> <<>>, outcome |-> "short"]
    ELSE IF env.convert = "raise"
    THEN [raised |-> TRUE, text |-> <<>>, outcome |-> "raised"]
    ELSE IF ByteLen(audio) \div 2 < MinSamples
    THEN [raised |-> FALSE, text |-> <<>>, outcome |-> "short"]
    ELSE IF ~env.model.ok
    THEN [raised |-> FALSE, text |-> <<>>, outcome |-> "model_failed"]
    ELSE IF Strip(env.model.text) = <<>>
    THEN [raised |-> FALSE, text |-> <<>>, outcome |-> "empty"]
    ELSE IF stepTask = "translate"
    THEN [raised |-> FALSE,
          text |-> TranslateText(Strip(env.model.text), env.translate),
          outcome |-> IF env.translate.kind = "fail" THEN "translate_failed"
                      ELSE "ok"]
    ELSE [raised |-> FALSE, text |-> Strip(env.model.text), outcome |-> "ok"]

\* The collaborator calls STTEngine.transcribe makes, in order: the speech model
\* with its task and language arguments and the text it gave, then
\* _translate_text when the translation step runs.
TranscribeCalls(audio, langTask, stepTask, env) ==
    IF audio = <<>> \/ ByteLen(audio) < SttMinAudioBytes THEN <<>>
    ELSE IF env.convert = "raise" THEN <<>>
    ELSE IF ByteLen(audio) \div 2 < MinSamples THEN <<>>
    ELSE LET model == [call |-> "model", task |-> "transcribe",
                       language |-> WhisperLang(langTask),
                       text |-> IF env.model.ok THEN Strip(env.model.text) ELSE <<>>]
         IN  IF env.model.ok /\ Strip(env.model.text) # <<>> /\ stepTask = "translate"
             THEN <<model, [call |-> "translate_text", task |-> "none",
                            language |-> "none", text |-> Strip(env.model.text)]>>
             ELSE <<model>>

(***************************************************************************)
(* MuteControl (src/src/audio/mute_control.py).  Each operator gives the   *)
(* new <<_was_muted_before, endpoint mute>> pair; getFails / setFails say  *)
(* whether the OS call GetMute / SetMute raises.                           *)
(***************************************************************************)

\* MuteControl.mute
Mute(enabled, initialized, was, sys, getFails, setFails) ==
    IF ~enabled \/ ~initialized THEN <<was, sys>>
    ELSE IF getFails THEN <<was, sys>>
    ELSE IF ~sys /\ ~setFails THEN <<sys, TRUE>>
    ELSE <<sys, sys>>

\* Faulty variant: unmute forgets the remembered state and always unmutes.
UnmuteAlways(enabled, initialized, was, sys, setFails) ==
    IF ~enabled \/ ~initialized THEN <<was, sys>>
    ELSE IF ~setFails THEN <<was, FALSE>>
    ELSE <<was, sys>>

\* MuteControl.unmute
Unmute(enabled, initialized, was, sys, setFails) ==
    IF ~enabled \/ ~initialized THEN <<was, sys>>
    ELSE IF ~was /\ ~setFails THEN <<was, FALSE>>
    ELSE <<was, sys>>

\* Faulty variant: force_unmute leaves the endpoint alone.
ForceUnmuteNoop(initialized, sys, setFails) == sys

\* MuteControl.force_unmute
ForceUnmute(initialized, sys, setFails) ==
    IF ~initialized THEN sys
    ELSE IF setFails THEN sys
    ELSE FALSE

(***************************************************************************)
(* VoiceActivityDetector (src/src/audio/vad.py).  A chunk fed to the       *)
(* detector is the one-block byte string ChunkOf(n), n its number in the   *)
(* stream; None is the empty byte string.                                  *)
(***************************************************************************)

\* int(duration * self._chunks_per_second), the duration given in ms.  For the
\* durations of VadConfigs the float product truncates to this quotient.
DurationChunks(ms) == ms \div ChunkDurationMs

\* VoiceActivityDetector.__init__
VadNew(cfg) ==
    [min_speech_chunks |-> DurationChunks(cfg.min_speech_ms),
     silence_chunks |-> DurationChunks(cfg.silence_ms),
     pre_pad_chunks |-> DurationChunks(cfg.pre_pad_ms),
     is_speech |-> FALSE,
     speech_chunks_count |-> 0,
     silence_chunks_count |-> 0,
     ring_buffer |-> <<>>,
     speech_buffer |-> <<>>]

\* Faulty variant: a full ring keeps its oldest chunks and drops the new one.
RingAppendKeepsOldest(ring, maxlen, chunk) ==
    IF maxlen = 0 THEN <<>>
    ELSE IF Len(ring) < maxlen THEN Append(ring, chunk)
    ELSE ring

\* collections.deque(maxlen=...).append
RingAppend(ring, maxlen, chunk) ==
    IF maxlen = 0 THEN <<>>
    ELSE IF Len(ring) < maxlen THEN Append(ring, chunk)
    ELSE Append(Tail(ring), chunk)

\* Faulty variant: a speech chunk during a segment leaves the silence counter as
\* it is.
ProcessChunkKeepsSilence(v, chunk, speech) ==
    IF ~v.is_speech
    THEN LET ring == RingAppend(v.ring_buffer, v.pre_pad_chunks, chunk)
         IN  IF speech
             THEN IF v.speech_chunks_count + 1 >= ActivationChunks
                  THEN [vad |-> [v EXCEPT !.speech_chunks_count = @ + 1,
                                          !.is_speech = TRUE,
                                          !.silence_chunks_count = 0,
                                          !.speech_buffer = ring,
                                          !.ring_buffer = <<>>],
                        result |-> <<>>]
                  ELSE [vad |-> [v EXCEPT !.speech_chunks_count = @ + 1,
                                          !.ring_buffer = ring],
                        result |-> <<>>]
             ELSE [vad |-> [v EXCEPT !.speech_chunks_count = 0,
                                     !.ring_buffer = ring],
                   result |-> <<>>]
    ELSE LET buf == Append(v.speech_buffer, chunk)
         IN  IF speech
             THEN [vad |-> [v EXCEPT !.speech_buffer = buf],
                   result |-> <<>>]
             ELSE IF v.silence_chunks_count + 1 >= v.silence_chunks
             THEN [vad |-> [v EXCEPT !.is_speech = FALSE,
                                     !.speech_chunks_count = 0,
                                     !.silence_chunks_count = 0,
                                     !.speech_buffer = <<>>],
                   result |-> IF Len(buf) >= v.min_speech_chunks
                              THEN Join(buf) ELSE <<>>]
             ELSE [vad |-> [v EXCEPT !.speech_buffer = buf,
                                     !.silence_chunks_count = @ + 1],
                   result |-> <<>>]

\* VoiceActivityDetector.process_chunk; speech is what is_speech(chunk) says.
\* The result is the detector's fields after the call and the value returned.
ProcessChunk(v, chunk, speech) ==
    IF ~v.is_speech
    THEN LET ring == RingAppend(v.ring_buffer, v.pre_pad_chunks, chunk)
         IN  IF speech
             THEN IF v.speech_chunks_count + 1 >= ActivationChunks
                  THEN [vad |-> [v EXCEPT !.speech_chunks_count = @ + 1,
                                          !.is_speech = TRUE,
                                          !.silence_chunks_count = 0,
                                          !.speech_buffer = ring,
                                          !.ring_buffer = <<>>],
                        result |-> <<>>]
                  ELSE [vad |-> [v EXCEPT !.speech_chunks_count = @ + 1,
                                          !.ring_buffer = ring],
                        result |-> <<>>]
             ELSE [vad |-> [v EXCEPT !.speech_chunks_count = 0,
                                     !.ring_buffer = ring],
                   result |-> <<>>]
    ELSE LET buf == Append(v.speech_buffer, chunk)
         IN  IF speech
             THEN [vad |-> [v EXCEPT !.speech_buffer = buf,
                                     !.silence_chunks_count = 0],
                   result |-> <<>>]
             ELSE IF v.silence_chunks_count + 1 >= v.silence_chunks
             THEN [vad |-> [v EXCEPT !.is_speech = FALSE,
                                     !.speech_chunks_count = 0,
                                     !.silence_chunks_count = 0,
                                     !.speech_buffer = <<>>],
                   result |-> IF Len(buf) >= v.min_speech_chunks
                              THEN Join(buf) ELSE <<>>]
             ELSE [vad |-> [v EXCEPT !.speech_buffer = buf,
                                     !.silence_chunks_count = @ + 1],
                   result |-> <<>>]

\* Faulty variant: reset leaves the accumulator as it is.
VadResetKeepsBuffer(v) ==
    [v EXCEPT !.is_speech = FALSE,
              !.speech_chunks_count = 0,
              !.silence_chunks_count = 0,
              !.ring_buffer = <<>>]

\* VoiceActivityDetector.reset
VadReset(v) ==
    [v EXCEPT !.is_speech = FALSE,
              !.speech_chunks_count = 0,
              !.silence_chunks_count = 0,
              !.speech_buffer = <<>>,
              !.ring_buffer = <<>>]

\* Faulty variant: flush returns whatever has been accumulated.
VadFlushNoMin(v) == [vad |-> VadReset(v), result |-> Join(v.speech_buffer)]

\* VoiceActivityDetector.flush
VadFlush(v) ==
    IF v.speech_buffer # <<>> /\ Len(v.speech_buffer) >= v.min_speech_chunks
    THEN [vad |-> VadReset(v), result |-> Join(v.speech_buffer)]
    ELSE [vad |-> VadReset(v), result |-> <<>>]

(***************************************************************************)
(* TextInjector (src/src/injector/text_injector.py).                       *)
(***************************************************************************)

\* The characters inject_text_fast types for text: nothing for an empty text,
\* else text with the trailing space / newline appended when configured and not
\* already there.
Normalize(text, addSpace, addNewline) ==
    LET t1 == IF addSpace /\ ~EndsWith(text, SPACE) THEN Append(text, SPACE)
              ELSE text
    IN  IF text = <<>> THEN <<>>
        ELSE IF addNewline /\ ~EndsWith(t1, NEWLINE) THEN Append(t1, NEWLINE)
        ELSE t1

\* TextInjector._make_unicode_input: wVk = 0, wScan = ord(char) stored in a 16-bit
\* WORD field (ctypes keeps the low 16 bits), dwFlags = KEYEVENTF_UNICODE with
\* KEYEVENTF_KEYUP for the key-up event.
MakeUnicodeInput(char, key_up) ==
    [vk |-> 0, scan |-> char % WordRange, unicode |-> TRUE, keyup |-> key_up]

\* Faulty variant: the Enter events carry the unicode flag.
MakeVkInputUnicode(vk_code, key_up) ==
    [vk |-> vk_code, scan |-> 0, unicode |-> TRUE, keyup |-> key_up]

\* TextInjector._make_vk_input: wVk = vk_code, wScan = 0, dwFlags = KEYEVENTF_KEYUP
\* for the key-up event and 0 otherwise.
MakeVkInput(vk_code, key_up) ==
    [vk |-> vk_code, scan |-> 0, unicode |-> FALSE, keyup |-> key_up]

\* The events list inject_text_fast builds for the normalized text t.
RECURSIVE EventsOf(_)
EventsOf(t) ==
    IF t = <<>> THEN <<>>
    ELSE (IF Head(t) = NEWLINE
          THEN <<MakeVkInput(VK_RETURN, FALSE), MakeVkInput(VK_RETURN, TRUE)>>
          ELSE <<MakeUnicodeInput(Head(t), FALSE), MakeUnicodeInput(Head(t), TRUE)>>)
         \o EventsOf(Tail(t))

\* One SendInput call: the events submitted, the count the system accepted, and
\* whether the caller logged a warning about it.
SendInputCall(events, accepted, warned) ==
    [events |-> events, accepted |-> accepted, warned |-> warned]

\* TextInjector.inject_text_fast: the SendInput calls it makes; accepted is the
\* count SendInput returns for the one batched call.
InjectTextFast(text, addSpace, addNewline, accepted) ==
    LET events == EventsOf(Normalize(text, addSpace, addNewline))
    IN  IF text = <<>> \/ events = <<>> THEN <<>>
        ELSE <<SendInputCall(events, accepted, accepted # Len(events))>>

\* TextInjector._send_char: two unicode events, result compared with 2.
SendChar(char, accepted) ==
    SendInputCall(<<MakeUnicodeInput(char, FALSE), MakeUnicodeInput(char, TRUE)>>,
                  accepted, accepted # 2)

\* Faulty variant: the paced path sends a newline as a unicode character.
SendEnterAsChar(accepted) ==
    SendInputCall(<<MakeUnicodeInput(NEWLINE, FALSE), MakeUnicodeInput(NEWLINE, TRUE)>>,
                  accepted, FALSE)

\* TextInjector._send_enter: two Enter events, result not looked at.
SendEnter(accepted) ==
    SendInputCall(<<MakeVkInput(VK_RETURN, FALSE), MakeVkInput(VK_RETURN, TRUE)>>,
                  accepted, FALSE)

\* TextInjector.inject_text: one SendInput call per character of the normalized
\* text; acc[i] is the count SendInput returns for the i-th call.
InjectText(text, addSpace, addNewline, acc) ==
    LET t == Normalize(text, addSpace, addNewline)
    IN  [i \in 1..Len(t) |-> IF t[i] = NEWLINE THEN SendEnter(acc[i])
                                                ELSE SendChar(t[i], acc[i])]

(***************************************************************************)
(* AudioCapture (src/src/audio/capture.py).                                *)
(***************************************************************************)

\* Faulty variant: the callback puts the chunk at the front of the buffer.
BufferAfterCallbackPrepend(buffering, buffer, chunk) ==
    IF buffering THEN <<chunk>> \o buffer ELSE buffer

\* AudioCapture._audio_callback: the buffer after the device delivers chunk.
BufferAfterCallback(buffering, buffer, chunk) ==
    IF buffering THEN Append(buffer, chunk) ELSE buffer

\* self._rms_peak *= 0.998, in thousandths rounded down
\* (p * 998 \div 1000, written so that the product stays small).
Decay(peak) == peak - (((1000 - DecayPerMille) * peak + 999) \div 1000)

\* The peak after k chunks that each decay it.
RECURSIVE DecayN(_, _)
DecayN(peak, k) ==
    IF k = 0 THEN peak
    ELSE IF k = 1 THEN Decay(peak)
    ELSE LET h == DecayN(peak, k \div 2)
         IN  IF h >= 0 THEN DecayN(h, k - (k \div 2)) ELSE h

\* Faulty variant: the peak never ramps up.
PeakAfterNoRamp(peak, rms) == Decay(peak)

\* _audio_callback: "if rms > self._rms_peak: self._rms_peak = rms
\*                   else: self._rms_peak *= 0.998"
PeakAfter(peak, rms) == IF rms > peak THEN rms ELSE Decay(peak)

\* The square root of n thousandths, in thousandths rounded down, for n below one.
ISqrt(n) ==
    CHOOSE k \in 0..LevelOne : k * k <= n * LevelOne /\ (k + 1) * (k + 1) > n * LevelOne

\* _audio_callback: "if self._rms_peak > 0.1:
\*                       level = min(1.0, (rms / self._rms_peak) ** 0.5)
\*                   else: level = 0.0"; peak is the peak already updated.
LevelOf(rms, peak) ==
    IF peak > PeakFloor
    THEN IF rms >= peak THEN LevelOne ELSE ISqrt((rms * LevelOne) \div peak)
    ELSE 0

\* AudioCapture.start_buffering: the buffer it leaves.
StartBufferingBuffer(buffer) == <<>>

\* AudioCapture.stop_buffering: the bytes returned.
StopBufferingResult(buffer) == Join(buffer)

(***************************************************************************)
(* The orchestrator (src/src/app.py).                                      *)
(***************************************************************************)

\* Faulty variant: a press is also dropped while a background thread is in flight.
PressIgnoredWhileProcessing == is_recording \/ tasks # <<>>

\* Faulty variant: a press is never dropped.
PressNeverIgnored == FALSE

\* _on_ptt_press: "if self._is_recording: return"
PressIgnored == is_recording

\* _on_ptt_release: "if not self._is_recording: return"
ReleaseIgnored == ~is_recording

\* Faulty variant: only an empty recording is too short.
TooShortOnlyEmpty(audio_data) == audio_data = <<>>

\* _on_ptt_release: "if not audio_data or len(audio_data) < 1000"
TooShort(audio_data) == audio_data = <<>> \/ ByteLen(audio_data) < MinAudioBytes

\* Faulty variant: the lock lets every thread in.
LockAlwaysFree == TRUE

\* threading.Lock: acquire succeeds only when no thread holds the lock.
LockFree == processing_lock = 0

\* Faulty variant: the injector is called whatever transcribe returned.
HasTextAlways(text) == TRUE

\* _process_audio: "if text:"
HasText(text) == text # <<>>

\* The background threads that were started and have not finished.
InFlight == DOMAIN tasks

\* The background threads inside the body guarded by _processing_lock.
InBody == {t \in InFlight : tasks[t].pc # "wait"}

\* VADConfig defaults: min_speech_duration 0.5, silence_duration 0.8,
\* pre_speech_pad 0.3 (in ms).
DefaultVadConfig == [min_speech_ms |-> 500, silence_ms |-> 800, pre_pad_ms |-> 300]

\* The stream fed to the detector since it was last in its reset state: no
\* call yet, nothing returned, no chunk fed.  speechRun / silenceRun / shaped
\* describe the stream when it is a run of speech chunks followed by a run of
\* non-speech chunks; speech is the classification of the last chunk fed and
\* emittedUpTo the number of the last chunk of the last segment returned so far.
VadOutNew ==
    [op |-> "none", result |-> <<>>, nFed |-> 0, nEmitted |-> 0,
     speechRun |-> 0, silenceRun |-> 0, shaped |-> TRUE, speech |-> FALSE,
     emittedUpTo |-> 0]

\* No call of the injector has been made on its own.
InjNone == [fn |-> "none", text |-> <<>>, calls |-> <<>>]

\* No thread is inside a call on the AudioCapture made on its own.
\* ctl / cb: where the control thread and the device thread are; raw: the chunk
\* the callback holds; arrived: chunks the device has delivered; sessionStart:
\* arrived when start_buffering was last called; rms / level: the last chunk's RMS
\* and the level reported for it; op: what the last completed operation was;
\* forwarded: the last chunk handed to the chunk listener (_on_audio_chunk).
CapNew ==
    [ctl |-> "idle", cb |-> "idle", raw |-> 0, arrived |-> 0, sessionStart |-> 0,
     rms |-> 0, level |-> 0, op |-> "none", forwarded |-> 0]

\* No transcribe call has been made on the engine on its own.
SttNone ==
    [pc |-> "idle", audio |-> <<>>, langTask |-> "none", stepTask |-> "none",
     trace |-> <<>>, text |-> <<>>, outcome |-> "none"]

\* No background thread is singled out.
MarkNone == [pos |-> 0, overtaken |-> FALSE]

\* The list of threads without its t-th.
Remove(seq, t) == SubSeq(seq, 1, t - 1) \o SubSeq(seq, t + 1, Len(seq))

\* VoiceInjectorApp.__init__, but for the detector's configuration.
InitApp ==
    /\ started = FALSE
    /\ running = FALSE
    /\ listening = FALSE
    /\ is_recording = FALSE
    /\ processing_lock = 0
    /\ tasks = <<>>
    /\ stream_open = FALSE
    /\ is_buffering = FALSE
    /\ audio_buffer = <<>>
    /\ nDelivered = 0
    /\ lastResult = <<>>
    /\ mute_enabled \in BOOLEAN
    /\ mute_initialized = FALSE
    /\ was_muted_before = FALSE
    /\ sysMuted \in BOOLEAN
    /\ preMuted = sysMuted
    /\ current_task \in {"transcribe", "translate"}
    /\ current_mode = "transcribe"
    /\ trayStatus = "idle"
    /\ overlayCmd = "idle"
    /\ hotkey_active = FALSE
    /\ nDispatched = 0
    /\ handlers = <<>>
    /\ vadOut = VadOutNew
    /\ inj = InjNone
    /\ rms_peak = DefaultRmsPeak
    /\ capture_lock = "free"
    /\ stream = FALSE
    /\ streams = 0
    /\ cap = CapNew
    /\ stt = SttNone
    /\ mark = MarkNone

\* InjectorConfig's defaults: add_trailing_space = True, add_trailing_newline = False.
DefaultInjectorFlags == add_trailing_space = TRUE /\ add_trailing_newline = FALSE

\* VoiceInjectorApp.__init__ with the default configuration.
Init == InitApp /\ DefaultInjectorFlags /\ vad = VadNew(DefaultVadConfig)

\* VoiceInjectorApp.start: mute.initialize (initOk: the endpoint could be opened),
\* start_stream, hotkeys.start, _running = True.
Start(initOk) ==
    /\ ~started
    /\ started' = TRUE
    /\ mute_enabled' = (mute_enabled /\ initOk)
    /\ mute_initialized' = (mute_enabled /\ initOk)
    /\ stream_open' = TRUE
    /\ stream' = TRUE
    /\ streams' = streams + 1
    /\ listening' = TRUE
    /\ running' = TRUE
    /\ current_mode' = current_task
    /\ UNCHANGED <<is_recording, lockVars, is_buffering, audio_buffer, chunkVars,
                   was_muted_before, sysMuted, preMuted, current_task, uiVars,
                   cfgVars, vad, vadOut, inj, cap, stt, rms_peak, capture_lock,
                   hkVars>>

\* VoiceInjectorApp.stop
Stop(setFails) ==
    /\ running
    /\ running' = FALSE
    /\ sysMuted' = ForceUnmute(mute_initialized, sysMuted, setFails)
    /\ listening' = FALSE
    /\ stream_open' = FALSE
    /\ stream' = (IF stream_open THEN FALSE ELSE stream)
    /\ streams' = (IF stream_open /\ stream THEN streams - 1 ELSE streams)
    /\ overlayCmd' = "quit"
    /\ UNCHANGED <<started, is_recording, lockVars, is_buffering, audio_buffer,
                   chunkVars, mute_enabled, mute_initialized, was_muted_before,
                   preMuted, sttVars, trayStatus, cfgVars, vad, vadOut, inj, cap,
                   stt, rms_peak, capture_lock, hkVars>>

\* The user mutes or unmutes the output while no session is recording.
UserSetMute(b) ==
    /\ ~is_recording
    /\ b # sysMuted
    /\ sysMuted' = b
    /\ preMuted' = b
    /\ UNCHANGED <<appVars, lockVars, audioVars, chunkVars, mute_enabled,
                   mute_initialized, was_muted_before, sttVars, uiVars,
                   cfgVars, unitVars, hkVars>>

\* VoiceInjectorApp._on_ptt_press
OnPttPress(getFails, setFails) ==
    /\ listening
    /\ IF PressIgnored
       THEN UNCHANGED vars
       ELSE /\ Len(tasks) < MaxTasks
            /\ is_recording' = TRUE
            /\ preMuted' = sysMuted
            /\ LET m == Mute(mute_enabled, mute_initialized, was_muted_before,
                             sysMuted, getFails, setFails)
               IN  /\ was_muted_before' = m[1]
                   /\ sysMuted' = m[2]
            /\ audio_buffer' = StartBufferingBuffer(audio_buffer)
            /\ nDelivered' = 0
            /\ lastResult' = <<>>
            /\ is_buffering' = TRUE
            /\ vad' = VadReset(vad)
            /\ rms_peak' = DefaultRmsPeak
            /\ trayStatus' = "listening"
            /\ overlayCmd' = "recording"
            /\ UNCHANGED <<started, running, listening, lockVars, stream_open,
                           mute_enabled, mute_initialized, sttVars, cfgVars,
                           vadOut, inj, cap, stt, capture_lock, stream, streams,
                           hkVars>>

\* VoiceInjectorApp._on_ptt_release
OnPttRelease(setFails) ==
    /\ listening
    /\ IF ReleaseIgnored
       THEN UNCHANGED vars
       ELSE /\ is_recording' = FALSE
            /\ LET m == Unmute(mute_enabled, mute_initialized, was_muted_before,
                               sysMuted, setFails)
               IN  /\ was_muted_before' = m[1]
                   /\ sysMuted' = m[2]
            /\ is_buffering' = FALSE
            /\ audio_buffer' = <<>>
            /\ lastResult' = StopBufferingResult(audio_buffer)
            /\ LET audio_data == StopBufferingResult(audio_buffer)
               IN  IF TooShort(audio_data)
                   THEN /\ trayStatus' = "idle"
                        /\ overlayCmd' = "idle"
                        /\ UNCHANGED tasks
                   ELSE /\ trayStatus' = "processing"
                        /\ overlayCmd' = "processing"
                        /\ tasks' = Append(tasks, NewTask(audio_data))
            /\ UNCHANGED <<started, running, listening, processing_lock, mark,
                           stream_open, nDelivered, mute_enabled, mute_initialized,
                           preMuted, sttVars, cfgVars, unitVars, hkVars>>

\* AudioCapture._audio_callback, on the device's thread (the app registers neither
\* a chunk listener nor a level listener).
AudioCallback ==
    /\ stream_open
    /\ nDelivered < MaxChunks
    /\ nDelivered' = IF is_buffering THEN nDelivered + 1 ELSE nDelivered
    /\ audio_buffer' =
           BufferAfterCallback(is_buffering, audio_buffer, ChunkOf(nDelivered + 1))
    /\ UNCHANGED <<appVars, lockVars, stream_open, is_buffering, lastResult,
                   muteVars, preMuted, sttVars, uiVars, cfgVars, unitVars, hkVars>>

\* VoiceInjectorApp._toggle_mode
ToggleMode ==
    /\ listening
    /\ current_task' = ToggleTask(current_task)
    /\ current_mode' = ToggleTask(current_task)
    /\ UNCHANGED <<appVars, lockVars, audioVars, chunkVars, muteVars, preMuted,
                   uiVars, cfgVars, unitVars, hkVars>>

\* The singled-out thread after thread t called the injector: a thread started
\* after it has typed its text first.
MarkAfterInject(m, t, ok) ==
    IF m.pos # 0 /\ t > m.pos /\ ok THEN [m EXCEPT !.overtaken = TRUE] ELSE m

\* The singled-out thread after thread t left the list of threads.
MarkAfterRemove(m, t) ==
    IF m.pos = 0 THEN m
    ELSE IF t = m.pos THEN MarkNone
    ELSE IF t < m.pos THEN [m EXCEPT !.pos = @ - 1]
    ELSE m

\* _process_audio: "with self._processing_lock"
TaskAcquire(t) ==
    /\ t \in InFlight
    /\ tasks[t].pc = "wait"
    /\ LockFree
    /\ processing_lock' = t
    /\ tasks' = [tasks EXCEPT ![t].pc = "transcribe"]
    /\ UNCHANGED <<appVars, mark, audioVars, chunkVars, muteVars, preMuted,
                   sttVars, uiVars, cfgVars, unitVars, hkVars>>

\* Faulty variant: the exception leaves the thread, which dies holding the lock.
EnterErrorEscapes(t, rec) ==
    /\ tasks' = Remove(tasks, t)
    /\ UNCHANGED <<processing_lock, trayStatus, overlayCmd>>

\* _process_audio: the except block up to time.sleep(1)
EnterError(t, rec) ==
    /\ tasks' = [tasks EXCEPT ![t] =
                     [rec EXCEPT !.pc = "errsleep", !.errorShown = TRUE]]
    /\ trayStatus' = "error"
    /\ overlayCmd' = "error"
    /\ UNCHANGED processing_lock

\* Faulty variant: after an empty transcription the thread calls transcribe again.
LeaveTryRetries(t, rec, cmd) ==
    /\ tasks' = [tasks EXCEPT ![t] =
                     [rec EXCEPT !.pc = IF cmd = "idle" THEN "transcribe"
                                        ELSE "finally"]]
    /\ overlayCmd' = cmd
    /\ UNCHANGED <<processing_lock, trayStatus>>

\* _process_audio: the try block completed without raising
LeaveTry(t, rec, cmd) ==
    /\ tasks' = [tasks EXCEPT ![t] = [rec EXCEPT !.pc = "finally"]]
    /\ overlayCmd' = cmd
    /\ UNCHANGED <<processing_lock, trayStatus>>

\* _process_audio: text = self._stt.transcribe(audio_data, ...)
TaskTranscribe(t, env) ==
    /\ t \in InFlight
    /\ tasks[t].pc = "transcribe"
    /\ LET r == Transcribe(tasks[t].audio, current_task, current_task, env)
           rec == [tasks[t] EXCEPT !.audio = <<>>, !.text = r.text,
                                   !.outcome = r.outcome]
       IN  IF r.raised
           THEN EnterError(t, rec)
           ELSE IF HasText(r.text)
           THEN /\ tasks' = [tasks EXCEPT ![t] = [rec EXCEPT !.pc = "inject"]]
                /\ UNCHANGED <<processing_lock, uiVars>>
           ELSE LeaveTry(t, rec, "idle")
    /\ UNCHANGED <<appVars, mark, audioVars, chunkVars, muteVars, preMuted,
                   sttVars, cfgVars, unitVars, hkVars>>

\* _process_audio: self._injector.inject_text_fast(text); show_result(text).
\* ok: the call returned; otherwise it raised before anything was typed.
TaskInject(t, ok) ==
    /\ t \in InFlight
    /\ tasks[t].pc = "inject"
    /\ LET typed == IF ok THEN Normalize(tasks[t].text, add_trailing_space,
                                          add_trailing_newline)
                    ELSE <<>>
           rec == [tasks[t] EXCEPT !.handed =
                      Append(@, [text |-> tasks[t].text, typed |-> typed])]
       IN  IF ok
           THEN LeaveTry(t, rec, "result")
           ELSE EnterError(t, [rec EXCEPT !.outcome = "inject_raised"])
    /\ mark' = MarkAfterInject(mark, t, ok)
    /\ UNCHANGED <<appVars, audioVars, chunkVars, muteVars, preMuted,
                   sttVars, cfgVars, unitVars, hkVars>>

\* Faulty variant: the thread ends without releasing the lock.
TaskFinallyKeepsLock(t) ==
    /\ t \in InFlight
    /\ tasks[t].pc \in {"errsleep", "finally"}
    /\ trayStatus' = IF running THEN "idle" ELSE trayStatus
    /\ tasks' = Remove(tasks, t)
    /\ mark' = MarkAfterRemove(mark, t)
    /\ UNCHANGED <<appVars, processing_lock, audioVars, chunkVars, muteVars,
                   preMuted, sttVars, overlayCmd, cfgVars, unitVars, hkVars>>

\* _process_audio: the finally block (after time.sleep(1) when the except block
\* ran), the release of the lock and the end of the thread
TaskFinally(t) ==
    /\ t \in InFlight
    /\ tasks[t].pc \in {"errsleep", "finally"}
    /\ trayStatus' = IF running THEN "idle" ELSE trayStatus
    /\ processing_lock' = 0
    /\ tasks' = Remove(tasks, t)
    /\ mark' = MarkAfterRemove(mark, t)
    /\ UNCHANGED <<appVars, audioVars, chunkVars, muteVars, preMuted,
                   sttVars, overlayCmd, cfgVars, unitVars, hkVars>>

\* The steps of the background threads.
TaskStep ==
    \E t \in TaskIds :
        \/ TaskAcquire(t)
        \/ \E env \in SttEnvs : TaskTranscribe(t, env)
        \/ \E ok \in BOOLEAN : TaskInject(t, ok)
        \/ TaskFinally(t)

\* The program from start() on, until stop(), with an OS mute endpoint whose
\* calls succeed.
Next ==
    \/ \E initOk \in BOOLEAN : Start(initOk)
    \/ \E b \in BOOLEAN : UserSetMute(b)
    \/ OnPttPress(FALSE, FALSE)
    \/ OnPttRelease(FALSE)
    \/ AudioCallback
    \/ ToggleMode
    \/ TaskStep

Spec == Init /\ [][Next]_vars

\* The same with an OS mute endpoint whose calls may raise.
NextFault ==
    \/ \E initOk \in BOOLEAN : Start(initOk)
    \/ \E b \in BOOLEAN : UserSetMute(b)
    \/ \E g, f \in BOOLEAN : OnPttPress(g, f)
    \/ \E f \in BOOLEAN : OnPttRelease(f)
    \/ AudioCallback
    \/ ToggleMode
    \/ TaskStep

SpecFault == Init /\ [][NextFault]_vars

\* The program including its shutdown (stop() called from the tray, the quit
\* hotkey or the main thread), with an OS mute endpoint whose calls succeed.
\* A session starts only while fewer than MaxLifeTasks threads are in flight.
NextLife ==
    \/ \E initOk \in BOOLEAN : Start(initOk)
    \/ \E b \in BOOLEAN : UserSetMute(b)
    \/ OnPttPress(FALSE, FALSE) /\ Len(tasks) < MaxLifeTasks
    \/ OnPttRelease(FALSE)
    \/ AudioCallback
    \/ ToggleMode
    \/ TaskStep
    \/ Stop(FALSE)

SpecLife == Init /\ [][NextLife]_vars

(***************************************************************************)
(* The handlers as the hotkey manager runs them (src/src/ui/hotkeys.py):   *)
(* _on_press / _on_release start a new thread for every callback, so the   *)
(* statements of _on_ptt_press and _on_ptt_release executions interleave.  *)
(***************************************************************************)

\* threading.Thread(target=on_press / on_release, daemon=True).start()
NewHandler(kind) == [kind |-> kind, pc |-> "check"]

\* The handler threads that are alive.
Handlers == DOMAIN handlers

\* HotkeyManager._on_press: the combination becomes held and was not active.
HotkeyDown ==
    /\ listening
    /\ ~hotkey_active
    /\ nDispatched < MaxDispatches
    /\ hotkey_active' = TRUE
    /\ nDispatched' = nDispatched + 1
    /\ handlers' = Append(handlers, NewHandler("press"))
    /\ UNCHANGED <<appVars, lockVars, audioVars, chunkVars, muteVars, preMuted,
                   sttVars, uiVars, cfgVars, unitVars>>

\* HotkeyManager._on_release: a key of the active combination is released.
HotkeyUp ==
    /\ listening
    /\ hotkey_active
    /\ nDispatched < MaxDispatches
    /\ hotkey_active' = FALSE
    /\ nDispatched' = nDispatched + 1
    /\ handlers' = Append(handlers, NewHandler("release"))
    /\ UNCHANGED <<appVars, lockVars, audioVars, chunkVars, muteVars, preMuted,
                   sttVars, uiVars, cfgVars, unitVars>>

\* _on_ptt_press: "if self._is_recording: return"
PressCheck(h) ==
    /\ h \in Handlers
    /\ handlers[h].kind = "press"
    /\ handlers[h].pc = "check"
    /\ handlers' = IF PressIgnored THEN Remove(handlers, h)
                   ELSE [handlers EXCEPT ![h].pc = "set"]
    /\ UNCHANGED <<appVars, lockVars, audioVars, chunkVars, muteVars, preMuted,
                   sttVars, uiVars, cfgVars, unitVars, hotkey_active, nDispatched>>

\* _on_ptt_press: "self._is_recording = True"
PressSet(h) ==
    /\ h \in Handlers
    /\ handlers[h].kind = "press"
    /\ handlers[h].pc = "set"
    /\ is_recording' = TRUE
    /\ handlers' = [handlers EXCEPT ![h].pc = "mute"]
    /\ UNCHANGED <<started, running, listening, lockVars, audioVars, chunkVars,
                   muteVars, preMuted, sttVars, uiVars, cfgVars, unitVars, hotkey_active,
                   nDispatched>>

\* _on_ptt_press: "self._mute.mute()"
PressMute(h) ==
    /\ h \in Handlers
    /\ handlers[h].kind = "press"
    /\ handlers[h].pc = "mute"
    /\ LET m == Mute(mute_enabled, mute_initialized, was_muted_before, sysMuted,
                     FALSE, FALSE)
       IN  /\ was_muted_before' = m[1]
           /\ sysMuted' = m[2]
    /\ handlers' = [handlers EXCEPT ![h].pc = "buffer"]
    /\ UNCHANGED <<appVars, lockVars, audioVars, chunkVars, mute_enabled,
                   mute_initialized, preMuted, sttVars, uiVars, cfgVars, unitVars,
                   hotkey_active, nDispatched>>

\* _on_ptt_press: vad.reset, start_buffering, tray and overlay update; the
\* thread ends.
PressBuffer(h) ==
    /\ h \in Handlers
    /\ handlers[h].kind = "press"
    /\ handlers[h].pc = "buffer"
    /\ audio_buffer' = StartBufferingBuffer(audio_buffer)
    /\ nDelivered' = 0
    /\ lastResult' = <<>>
    /\ is_buffering' = TRUE
    /\ trayStatus' = "listening"
    /\ overlayCmd' = "recording"
    /\ vad' = VadReset(vad)
    /\ rms_peak' = DefaultRmsPeak
    /\ handlers' = Remove(handlers, h)
    /\ UNCHANGED <<appVars, lockVars, stream_open, muteVars, preMuted, sttVars,
                   cfgVars, vadOut, inj, cap, stt, capture_lock, stream, streams,
                   hotkey_active, nDispatched>>

\* _on_ptt_release: "if not self._is_recording: return"
ReleaseCheck(h) ==
    /\ h \in Handlers
    /\ handlers[h].kind = "release"
    /\ handlers[h].pc = "check"
    /\ handlers' = IF ReleaseIgnored THEN Remove(handlers, h)
                   ELSE [handlers EXCEPT ![h].pc = "clear"]
    /\ UNCHANGED <<appVars, lockVars, audioVars, chunkVars, muteVars, preMuted,
                   sttVars, uiVars, cfgVars, unitVars, hotkey_active, nDispatched>>

\* _on_ptt_release: "self._is_recording = False"
ReleaseClear(h) ==
    /\ h \in Handlers
    /\ handlers[h].kind = "release"
    /\ handlers[h].pc = "clear"
    /\ is_recording' = FALSE
    /\ handlers' = [handlers EXCEPT ![h].pc = "unmute"]
    /\ UNCHANGED <<started, running, listening, lockVars, audioVars, chunkVars,
                   muteVars, preMuted, sttVars, uiVars, cfgVars, unitVars, hotkey_active,
                   nDispatched>>

\* _on_ptt_release: "self._mute.unmute()"
ReleaseUnmute(h) ==
    /\ h \in Handlers
    /\ handlers[h].kind = "release"
    /\ handlers[h].pc = "unmute"
    /\ LET m == Unmute(mute_enabled, mute_initialized, was_muted_before,
                       sysMuted, FALSE)
       IN  /\ was_muted_before' = m[1]
           /\ sysMuted' = m[2]
    /\ handlers' = [handlers EXCEPT ![h].pc = "stop"]
    /\ UNCHANGED <<appVars, lockVars, audioVars, chunkVars, mute_enabled,
                   mute_initialized, preMuted, sttVars, uiVars, cfgVars, unitVars,
                   hotkey_active, nDispatched>>

\* _on_ptt_release: stop_buffering, the length check, the tray and overlay
\* update and the start of the background thread; the handler thread ends.
ReleaseStop(h) ==
    /\ h \in Handlers
    /\ handlers[h].kind = "release"
    /\ handlers[h].pc = "stop"
    /\ is_buffering' = FALSE
    /\ audio_buffer' = <<>>
    /\ lastResult' = StopBufferingResult(audio_buffer)
    /\ LET audio_data == StopBufferingResult(audio_buffer)
       IN  IF TooShort(audio_data)
           THEN /\ trayStatus' = "idle"
                /\ overlayCmd' = "idle"
                /\ UNCHANGED tasks
           ELSE /\ trayStatus' = "processing"
                /\ overlayCmd' = "processing"
                /\ tasks' = Append(tasks, NewTask(audio_data))
    /\ handlers' = Remove(handlers, h)
    /\ UNCHANGED <<appVars, processing_lock, mark, stream_open, nDelivered, muteVars,
                   preMuted, sttVars, cfgVars, unitVars, hotkey_active, nDispatched>>

\* The steps of the handler threads.
HandlerStep ==
    \E h \in 1..MaxDispatches :
        \/ PressCheck(h)
        \/ PressSet(h)
        \/ PressMute(h)
        \/ PressBuffer(h)
        \/ ReleaseCheck(h)
        \/ ReleaseClear(h)
        \/ ReleaseUnmute(h)
        \/ ReleaseStop(h)

\* The program with its handler threads, for the first MaxDispatches hotkey
\* events and sessions of at most MaxThreadChunks chunks (too short for the
\* speech model, so that a background thread never reaches the injector).
NextThreads ==
    \/ \E initOk \in BOOLEAN : Start(initOk)
    \/ HotkeyDown
    \/ HotkeyUp
    \/ HandlerStep
    \/ AudioCallback /\ nDelivered < MaxThreadChunks
    \/ \E t \in TaskIds :
           \/ TaskAcquire(t)
           \/ \E env \in SttEnvs : TaskTranscribe(t, env)
           \/ TaskFinally(t)

SpecThreads == Init /\ [][NextThreads]_vars

\* The same program with its shutdown: stop() may be called (tray, quit hotkey
\* or main thread) while handler threads started earlier are still running;
\* HotkeyManager.stop ends the dispatch of new handlers, not the threads.
NextShutdown ==
    \/ NextThreads
    \/ Stop(FALSE)

SpecShutdown == Init /\ [][NextShutdown]_vars

(***************************************************************************)
(* The voice activity detector on its own: any stream of speech and        *)
(* non-speech chunks, with reset and flush calls in between, under the     *)
(* default configuration and two short ones.                               *)
(***************************************************************************)

\* The variables of the running program, which calls on one component alone
\* leave as they are.
progVars == <<appVars, lockVars, audioVars, chunkVars, muteVars, preMuted,
              sttVars, uiVars, cfgVars, hkVars>>

\* Detector configurations: the defaults; a short one (6, 2 and 3 chunks); and
\* a short one without pre-speech padding.
VadConfigs ==
    {DefaultVadConfig,
     [min_speech_ms |-> 200, silence_ms |-> 60, pre_pad_ms |-> 90],
     [min_speech_ms |-> 200, silence_ms |-> 60, pre_pad_ms |-> 0]}

InitVad ==
    /\ InitApp
    /\ DefaultInjectorFlags
    /\ mute_enabled
    /\ ~sysMuted
    /\ current_task = "transcribe"
    /\ \E cfg \in VadConfigs : vad = VadNew(cfg)

\* vad.process_chunk(chunk) with the next chunk of the stream
VadProcess(speech) ==
    /\ vadOut.nFed < MaxVadChunks
    /\ LET r == ProcessChunk(vad, ChunkOf(vadOut.nFed + 1), speech)
           shaped == /\ vadOut.shaped
                     /\ IF speech THEN vadOut.silenceRun = 0
                        ELSE vadOut.speechRun >= 1
       IN  /\ vad' = r.vad
           /\ vadOut' =
                  [op |-> "process",
                   result |-> r.result,
                   nFed |-> vadOut.nFed + 1,
                   nEmitted |-> vadOut.nEmitted + (IF r.result # <<>> THEN 1 ELSE 0),
                   speechRun |-> IF shaped /\ speech THEN vadOut.speechRun + 1
                                 ELSE IF shaped THEN vadOut.speechRun ELSE 0,
                   silenceRun |-> IF shaped /\ ~speech THEN vadOut.silenceRun + 1
                                  ELSE 0,
                   shaped |-> shaped,
                   speech |-> speech,
                   emittedUpTo |-> IF r.result # <<>> THEN r.result[Len(r.result)]
                                   ELSE vadOut.emittedUpTo]
    /\ UNCHANGED <<progVars, inj, cap, stt, devVars>>

\* vad.reset()
VadResetCall ==
    /\ vad' = VadReset(vad)
    /\ vadOut' = [VadOutNew EXCEPT !.op = "reset", !.nFed = vadOut.nFed,
                                   !.emittedUpTo = vadOut.emittedUpTo]
    /\ UNCHANGED <<progVars, inj, cap, stt, devVars>>

\* vad.flush()
VadFlushCall ==
    /\ LET r == VadFlush(vad)
       IN  /\ vad' = r.vad
           /\ vadOut' = [VadOutNew EXCEPT
                             !.op = "flush", !.result = r.result,
                             !.nFed = vadOut.nFed,
                             !.emittedUpTo =
                                 IF r.result # <<>> THEN r.result[Len(r.result)]
                                 ELSE vadOut.emittedUpTo]
    /\ UNCHANGED <<progVars, inj, cap, stt, devVars>>

NextVad ==
    \/ \E speech \in BOOLEAN : VadProcess(speech)
    \/ VadResetCall
    \/ VadFlushCall

SpecVad == InitVad /\ [][NextVad]_vars

(***************************************************************************)
(* The text injector alone: one call of inject_text_fast or inject_text on *)
(* a TextInjector built with any setting of the two flags.                 *)
(***************************************************************************)

\* Code points of the texts tried: a space, a newline, a Hangul syllable
\* (U+D55C) and a character outside the Basic Multilingual Plane (U+1F600).
Chars == {SPACE, NEWLINE, 54620, 128512}

\* The texts tried: every string over Chars of at most MaxTextLen characters.
Texts == UNION {[1..n -> Chars] : n \in 0..MaxTextLen}

\* TextInjector.__init__ with any setting of add_trailing_space and
\* add_trailing_newline.
InitInj ==
    /\ InitApp
    /\ mute_enabled
    /\ ~sysMuted
    /\ current_task = "transcribe"
    /\ vad = VadNew(DefaultVadConfig)
    /\ add_trailing_space \in BOOLEAN
    /\ add_trailing_newline \in BOOLEAN

\* injector.inject_text_fast(text); SendInput accepts accepted events
InjectTextFastCall(text, accepted) ==
    /\ inj.fn = "none"
    /\ accepted <= Len(EventsOf(Normalize(text, add_trailing_space, add_trailing_newline)))
    /\ inj' = [fn |-> "fast", text |-> text,
               calls |-> InjectTextFast(text, add_trailing_space,
                                        add_trailing_newline, accepted)]
    /\ UNCHANGED <<progVars, vad, vadOut, cap, stt, devVars>>

\* injector.inject_text(text); SendInput accepts acc[i] events of the i-th call
InjectTextCall(text, acc) ==
    /\ inj.fn = "none"
    /\ inj' = [fn |-> "paced", text |-> text,
               calls |-> InjectText(text, add_trailing_space,
                                    add_trailing_newline, acc)]
    /\ UNCHANGED <<progVars, vad, vadOut, cap, stt, devVars>>

\* One call on a fresh injector.
NextInj ==
    /\ inj.fn = "none"
    /\ \/ \E text \in Texts : \E accepted \in 0..(2 * (Len(text) + 2)) :
             InjectTextFastCall(text, accepted)
       \/ \E text \in Texts :
             \E acc \in [1..Len(Normalize(text, add_trailing_space, add_trailing_newline))
                           -> 0..2] :
               InjectTextCall(text, acc)

SpecInj == InitInj /\ [][NextInj]_vars

(***************************************************************************)
(* An AudioCapture alone, used by a control thread (start_stream,          *)
(* stop_stream, start_buffering, stop_buffering, statement by statement)   *)
(* and the device thread running _audio_callback.  The n-th chunk the      *)
(* device delivers has the value n.                                        *)
(***************************************************************************)

\* The variables an AudioCapture on its own never touches.
restVars == <<appVars, lockVars, nDelivered, muteVars, preMuted, sttVars, uiVars,
              cfgVars, hkVars, vad, vadOut, inj, stt>>

InitCap ==
    /\ InitApp
    /\ DefaultInjectorFlags
    /\ mute_enabled
    /\ ~sysMuted
    /\ current_task = "transcribe"
    /\ vad = VadNew(DefaultVadConfig)

\* start_stream / stop_stream: "with self._lock:"
StreamLockAcquire(op) ==
    /\ cap.ctl = "idle"
    /\ capture_lock = "free"
    /\ capture_lock' = "control"
    /\ cap' = [cap EXCEPT !.ctl = op]
    /\ UNCHANGED <<restVars, audioVars, lastResult, rms_peak, stream, streams>>

\* start_stream inside the lock.  outcome: the device calls succeed ("ok"),
\* sd.RawInputStream(...) raises ("open_fails"), or the stream is opened and
\* self._stream.start() raises ("start_fails").
StartStreamBody(outcome) ==
    /\ cap.ctl = "start_stream"
    /\ outcome = "ok" \/ streams < MaxStreams
    /\ IF stream_open
       THEN UNCHANGED <<stream_open, stream, streams>>
       ELSE /\ stream' = (IF outcome = "open_fails" THEN stream ELSE TRUE)
            /\ streams' = (IF outcome = "open_fails" THEN streams ELSE streams + 1)
            /\ stream_open' = (outcome = "ok")
    /\ cap' = [cap EXCEPT !.ctl = "unlock", !.op = "start_stream"]
    /\ UNCHANGED <<restVars, is_buffering, audio_buffer, lastResult, rms_peak,
                   capture_lock>>

\* stop_stream inside the lock
StopStreamBody ==
    /\ cap.ctl = "stop_stream"
    /\ IF ~stream_open
       THEN UNCHANGED <<stream_open, stream, streams>>
       ELSE /\ stream' = FALSE
            /\ streams' = (IF stream THEN streams - 1 ELSE streams)
            /\ stream_open' = FALSE
    /\ cap' = [cap EXCEPT !.ctl = "unlock", !.op = "stop_stream"]
    /\ UNCHANGED <<restVars, is_buffering, audio_buffer, lastResult, rms_peak,
                   capture_lock>>

\* The end of the with block, on return or on an exception.
StreamLockRelease ==
    /\ cap.ctl = "unlock"
    /\ capture_lock' = "free"
    /\ cap' = [cap EXCEPT !.ctl = "idle"]
    /\ UNCHANGED <<restVars, audioVars, lastResult, rms_peak, stream, streams>>

\* start_buffering: "self._audio_buffer.clear()"
StartBufferingClear ==
    /\ cap.ctl = "idle"
    /\ audio_buffer' = StartBufferingBuffer(audio_buffer)
    /\ lastResult' = <<>>
    /\ cap' = [cap EXCEPT !.ctl = "sb_peak", !.sessionStart = cap.arrived]
    /\ UNCHANGED <<restVars, stream_open, is_buffering, devVars>>

\* Faulty variant: start_buffering leaves the adaptive peak as it is.
StartBufferingPeakKept ==
    /\ cap.ctl = "sb_peak"
    /\ cap' = [cap EXCEPT !.ctl = "sb_flag"]
    /\ UNCHANGED <<restVars, audioVars, lastResult, devVars>>

\* start_buffering: "self._rms_peak = 50.0"
StartBufferingPeak ==
    /\ cap.ctl = "sb_peak"
    /\ rms_peak' = DefaultRmsPeak
    /\ cap' = [cap EXCEPT !.ctl = "sb_flag"]
    /\ UNCHANGED <<restVars, audioVars, lastResult, capture_lock, stream, streams>>

\* start_buffering: "self._is_buffering = True"
StartBufferingFlag ==
    /\ cap.ctl = "sb_flag"
    /\ is_buffering' = TRUE
    /\ cap' = [cap EXCEPT !.ctl = "idle", !.op = "start_buffering"]
    /\ UNCHANGED <<restVars, stream_open, audio_buffer, lastResult, devVars>>

\* stop_buffering: "self._is_buffering = False"
StopBufferingFlag ==
    /\ cap.ctl = "idle"
    /\ is_buffering' = FALSE
    /\ cap' = [cap EXCEPT !.ctl = "pb_join"]
    /\ UNCHANGED <<restVars, stream_open, audio_buffer, lastResult, devVars>>

\* stop_buffering: "result = b"".join(self._audio_buffer)"
StopBufferingJoin ==
    /\ cap.ctl = "pb_join"
    /\ lastResult' = StopBufferingResult(audio_buffer)
    /\ cap' = [cap EXCEPT !.ctl = "pb_clear"]
    /\ UNCHANGED <<restVars, audioVars, devVars>>

\* stop_buffering: "self._audio_buffer.clear()" and the return
StopBufferingClear ==
    /\ cap.ctl = "pb_clear"
    /\ audio_buffer' = <<>>
    /\ cap' = [cap EXCEPT !.ctl = "idle", !.op = "stop_buffering"]
    /\ UNCHANGED <<restVars, stream_open, is_buffering, lastResult, devVars>>

\* The device calls _audio_callback: "raw_bytes = bytes(indata)"
CallbackArrive ==
    /\ stream_open
    /\ cap.cb = "idle"
    /\ cap.arrived < MaxCapChunks
    /\ cap' = [cap EXCEPT !.cb = "check", !.raw = cap.arrived + 1,
                          !.arrived = cap.arrived + 1,
                          !.forwarded = cap.arrived + 1]
    /\ UNCHANGED <<restVars, audioVars, lastResult, devVars>>

\* _audio_callback: "if self._is_buffering:"
CallbackCheck ==
    /\ cap.cb = "check"
    /\ cap' = [cap EXCEPT !.cb = IF is_buffering THEN "append" ELSE "idle"]
    /\ UNCHANGED <<restVars, audioVars, lastResult, devVars>>

\* _audio_callback: "self._audio_buffer.append(raw_bytes)"
CallbackAppend ==
    /\ cap.cb = "append"
    /\ audio_buffer' = BufferAfterCallback(TRUE, audio_buffer, ChunkOf(cap.raw))
    /\ cap' = [cap EXCEPT !.cb = "idle"]
    /\ UNCHANGED <<restVars, stream_open, is_buffering, lastResult, devVars>>

\* The steps of the control thread.
ControlStep ==
    \/ \E op \in {"start_stream", "stop_stream"} : StreamLockAcquire(op)
    \/ \E outcome \in {"ok", "open_fails", "start_fails"} : StartStreamBody(outcome)
    \/ StopStreamBody
    \/ StreamLockRelease
    \/ StartBufferingClear
    \/ StartBufferingPeak
    \/ StartBufferingFlag
    \/ StopBufferingFlag
    \/ StopBufferingJoin
    \/ StopBufferingClear

NextCap ==
    \/ ControlStep
    \/ CallbackArrive
    \/ CallbackCheck
    \/ CallbackAppend

SpecCapture == InitCap /\ [][NextCap]_vars

(***************************************************************************)
(* The same AudioCapture with a level listener registered                  *)
(* (set_level_callback), the callback taken as one step.  The device       *)
(* delivers either a few chunks of any loudness, or SilenceRun chunks of   *)
(* digital silence followed by a few chunks of any loudness.               *)
(***************************************************************************)

\* Chunk RMS values, in thousandths: silence, 0.08 (below the floor), 50.0 (the
\* initial peak) and 1000.0.
RmsValues == {0, 80, 50000, 1000000}

\* _audio_callback with a level listener; rms is np.sqrt(np.mean(samples**2))
LevelCallback(rms) ==
    /\ stream_open
    /\ cap.cb = "idle"
    /\ (IF cap.arrived >= SilenceRun THEN cap.arrived - SilenceRun ELSE cap.arrived)
          < MaxLevelChunks
    /\ IF is_buffering
       THEN /\ audio_buffer' = BufferAfterCallback(TRUE, audio_buffer,
                                                   ChunkOf(cap.arrived + 1))
            /\ rms_peak' = PeakAfter(rms_peak, rms)
            /\ cap' = [cap EXCEPT !.arrived = cap.arrived + 1, !.rms = rms,
                                  !.level = LevelOf(rms, PeakAfter(rms_peak, rms)),
                                  !.op = "chunk", !.forwarded = cap.arrived + 1]
       ELSE /\ cap' = [cap EXCEPT !.arrived = cap.arrived + 1, !.op = "skipped",
                                  !.forwarded = cap.arrived + 1]
            /\ UNCHANGED <<audio_buffer, rms_peak>>
    /\ UNCHANGED <<restVars, stream_open, is_buffering, lastResult, capture_lock,
                   stream, streams>>

\* SilenceRun calls of _audio_callback in a row, each with rms = 0, right after
\* buffering started.
LevelSilence ==
    /\ stream_open
    /\ is_buffering
    /\ cap.cb = "idle"
    /\ cap.arrived = 0
    /\ audio_buffer' = audio_buffer \o [i \in 1..SilenceRun |-> ChunkOf(i)]
    /\ rms_peak' = DecayN(rms_peak, SilenceRun)
    /\ cap' = [cap EXCEPT !.arrived = SilenceRun, !.rms = 0,
                          !.level = LevelOf(0, DecayN(rms_peak, SilenceRun)),
                          !.op = "run", !.forwarded = SilenceRun]
    /\ UNCHANGED <<restVars, stream_open, is_buffering, lastResult, capture_lock,
                   stream, streams>>

NextLevel ==
    \/ StreamLockAcquire("start_stream")
    \/ StartStreamBody("ok")
    \/ StreamLockRelease
    \/ StartBufferingClear
    \/ StartBufferingPeak
    \/ StartBufferingFlag
    \/ StopBufferingFlag
    \/ StopBufferingJoin
    \/ StopBufferingClear
    \/ \E rms \in RmsValues : LevelCallback(rms)
    \/ LevelSilence

SpecLevel == InitCap /\ [][NextLevel]_vars

(***************************************************************************)
(* An STTEngine alone: transcribe calls on one thread while toggle_task    *)
(* is called on another (the mode hotkey and the tray menu run             *)
(* _toggle_mode on their own threads).                                     *)
(***************************************************************************)

\* Recordings handed to transcribe: empty, one and two chunks (below and above
\* 1000 bytes), and recordings around half a second.
SttAudios == {[i \in 1..n |-> i] : n \in {0, 1, 2, MaxChunks - 1, MaxChunks}}

\* transcribe up to the call of the speech model: the length checks and the
\* first read of self._current_task, which selects the language.
SttBegin(audio) ==
    /\ stt.pc \in {"idle", "done"}
    /\ stt' = [pc |-> "model", audio |-> audio, langTask |-> current_task,
               stepTask |-> "none", trace |-> <<>>, text |-> <<>>,
               outcome |-> "none"]
    /\ UNCHANGED <<progVars, vad, vadOut, inj, cap, devVars>>

\* STTEngine.toggle_task, on another thread
SttToggle ==
    /\ current_task' = ToggleTask(current_task)
    /\ UNCHANGED <<appVars, lockVars, audioVars, chunkVars, muteVars, preMuted,
                   current_mode, uiVars, cfgVars, hkVars, unitVars>>

\* transcribe from the model's return on: the second read of self._current_task,
\* which decides on the translation step, and the return.
SttEnd(env) ==
    /\ stt.pc = "model"
    /\ stt' = [stt EXCEPT
                 !.pc = "done",
                 !.stepTask = current_task,
                 !.trace = TranscribeCalls(stt.audio, stt.langTask, current_task, env),
                 !.text = Transcribe(stt.audio, stt.langTask, current_task, env).text,
                 !.outcome =
                     Transcribe(stt.audio, stt.langTask, current_task, env).outcome]
    /\ UNCHANGED <<progVars, vad, vadOut, inj, cap, devVars>>

NextStt ==
    \/ \E audio \in SttAudios : SttBegin(audio)
    \/ SttToggle
    \/ \E env \in SttEnvs : SttEnd(env)

SpecStt == InitCap /\ [][NextStt]_vars

(***************************************************************************)
(* Properties.                                                             *)
(***************************************************************************)
(* Progress of the background threads (src/src/app.py, _process_audio):    *)
(* the program with one waiting thread singled out, so that what happens   *)
(* to that thread can be followed while the list of threads changes.       *)
(***************************************************************************)

\* The recordings the user makes here: too short to dispatch, too short for the
\* engine, or long enough to be transcribed.
ProgLengths == {0, 2, MaxChunks}

\* threading.Thread(...).start() seen from outside: the thread at position p,
\* started and waiting for _processing_lock, is singled out.
Mark(p) ==
    /\ mark.pos = 0
    /\ p \in InFlight
    /\ tasks[p].pc = "wait"
    /\ mark' = [pos |-> p, overtaken |-> FALSE]
    /\ UNCHANGED <<appVars, processing_lock, tasks, audioVars, chunkVars, muteVars,
                   preMuted, sttVars, uiVars, cfgVars, unitVars, hkVars>>

\* The statements of _process_audio inside the lock.
TaskBody ==
    \E t \in TaskIds :
        \/ \E env \in SttEnvs : TaskTranscribe(t, env)
        \/ \E ok \in BOOLEAN : TaskInject(t, ok)
        \/ TaskFinally(t)

\* Some waiting thread takes the lock.
AnyAcquire == \E t \in TaskIds : TaskAcquire(t)

\* The singled-out thread takes the lock.
MarkedAcquire == mark.pos # 0 /\ TaskAcquire(mark.pos)

\* The running program with a working mute endpoint: sessions, chunks, the
\* background threads, and the choice of the thread to follow.
NextProg ==
    \/ Start(TRUE)
    \/ OnPttPress(FALSE, FALSE)
    \/ OnPttRelease(FALSE) /\ (is_recording => Len(audio_buffer) \in ProgLengths)
    \/ AudioCallback
    \/ AnyAcquire
    \/ TaskBody
    \/ \E p \in TaskIds : Mark(p)

\* Every call made inside the lock returns or raises (a thread inside the body
\* takes its next step), a free lock is taken when threads wait for it, and the
\* scheduler is fair to the singled-out thread: it is not passed over forever
\* while the lock is free again and again.
FairProg ==
    /\ WF_vars(TaskBody)
    /\ WF_vars(AnyAcquire)
    /\ SF_vars(MarkedAcquire)

SpecProgress == InitCap /\ [][NextProg]_vars /\ FairProg

(***************************************************************************)

\* The orchestrator's phases.
Processing == tasks # <<>>
Idle == ~is_recording /\ tasks = <<>>

\* What a session's buffer must hold after n chunks were delivered into it.
ChunksUpTo(n) == [i \in 1..n |-> ChunkOf(i)]

\* C1: at most one background thread is inside the transcribe+inject body of
\* _process_audio, and it is the holder of the processing lock; every other
\* thread that was started is waiting for the lock.
C1_SingleFlight ==
    /\ Cardinality(InBody) <= 1
    /\ \A t \in InBody : processing_lock = t

\* A second thread waits on the lock while the first is inside the body.
C1_Witness ==
    \E t, u \in InFlight :
        /\ tasks[t].pc \in {"transcribe", "inject"}
        /\ processing_lock = t
        /\ tasks[u].pc = "wait"

C3_AtMostOneInFlight == Len(tasks) <= 1

\* C3 amended: background threads of several sessions can be in flight at once,
\* but every one of them other than the holder of the processing lock is still
\* waiting for the lock with its audio untouched: it has transcribed nothing and
\* injected nothing.
C3_OthersOnlyWait ==
    \A t \in InFlight :
        t # processing_lock =>
            /\ tasks[t].pc = "wait"
            /\ tasks[t].audio # <<>>
            /\ tasks[t].text = <<>>
            /\ tasks[t].handed = <<>>

\* Two background threads are in flight.
C3_Witness == Len(tasks) >= 2 /\ processing_lock # 0

C6_PressIdempotent ==
    (listening /\ is_recording) =>
        /\ ENABLED OnPttPress(FALSE, FALSE)
        /\ ~ENABLED (OnPttPress(FALSE, FALSE)
                     /\ <<is_recording, muteVars, audioVars, chunkVars, lockVars,
                          uiVars>>' #
                        <<is_recording, muteVars, audioVars, chunkVars, lockVars,
                          uiVars>>)

\* A press arrives in a session that has muted the output and buffered chunks.
C6_Witness ==
    /\ listening
    /\ is_recording
    /\ Len(audio_buffer) >= 2
    /\ sysMuted
    /\ ~was_muted_before

C8_ExceptionContained ==
    /\ processing_lock # 0 => processing_lock \in InBody
    /\ \A t \in InFlight :
           tasks[t].pc = "errsleep" =>
               /\ tasks[t].errorShown
               /\ tasks[t].outcome \in {"raised", "inject_raised"}
               /\ ENABLED TaskFinally(t)
    /\ (Idle /\ listening) =>
           ENABLED (OnPttPress(FALSE, FALSE) /\ is_recording')

\* After an exception the orchestrator is Idle again with the lock free.
C8_Witness ==
    /\ Idle
    /\ overlayCmd = "error"
    /\ trayStatus = "idle"
    /\ processing_lock = 0

\* C9 as stated: whatever step of a cycle fails, once the orchestrator is Idle
\* the output's mute state is its value before the session.
C9_MuteRestoredDespiteFailure == Idle => sysMuted = preMuted

\* C10 as stated: a failure of the speech model or of the translation step
\* takes the background thread through the error display.
C10_ModelFailureShown ==
    \A t \in InFlight :
        tasks[t].outcome \in {"model_failed", "translate_failed"} =>
            tasks[t].errorShown

\* C11: a deactivation (the step that clears the recording flag) whose session
\* buffered fewer than MinAudioBytes bytes starts no background thread and
\* shows idle, so that nothing is transcribed or injected for that cycle; any
\* other deactivation starts exactly one thread, which waits for the lock holding
\* exactly the session's bytes.
C11_ShortAudioSkipped ==
    [][(is_recording /\ ~is_recording') =>
          IF nDelivered * ChunkBytes < MinAudioBytes
          THEN /\ tasks' = tasks
               /\ trayStatus' = "idle"
               /\ overlayCmd' = "idle"
          ELSE /\ Len(tasks') = Len(tasks) + 1
               /\ SubSeq(tasks', 1, Len(tasks)) = tasks
               /\ tasks'[Len(tasks')].pc = "wait"
               /\ tasks'[Len(tasks')].audio = [i \in 1..nDelivered |-> i]
               /\ tasks'[Len(tasks')].handed = <<>>]_vars

\* A session that buffered one chunk (fewer than MinAudioBytes bytes) has been
\* released: no thread was started.
C11_Witness ==
    /\ ~is_recording
    /\ Len(lastResult) = 1
    /\ tasks = <<>>
    /\ trayStatus = "idle"

C13_ToggleIsPureFlip ==
    [][(current_task' # current_task) =>
          /\ current_task' \in {"transcribe", "translate"}
          /\ current_mode' = current_task'
          /\ ToggleTask(current_task') = current_task
          /\ UNCHANGED <<is_recording, is_buffering, audio_buffer, sysMuted,
                         was_muted_before, processing_lock, tasks, running,
                         trayStatus>>]_vars

\* The mode was toggled to transcribe while a thread that had translated its
\* text held the lock and a new session was recording.
C13_Witness ==
    /\ current_task = "transcribe"
    /\ current_mode = "transcribe"
    /\ is_recording
    /\ audio_buffer # <<>>
    /\ \E t \in InFlight :
           /\ processing_lock = t
           /\ tasks[t].pc = "inject"
           /\ tasks[t].text = <<97>>

\* The handler threads that have passed the check of the recording flag and
\* have statements of their handler left to run.
PastCheck == {h \in Handlers : handlers[h].pc # "check"}

\* C14 as stated: the executions of _on_ptt_press and _on_ptt_release are
\* serialised: at no time are two of them past their check of the recording
\* flag with statements left to run.
C14_HandlersSerialized == Cardinality(PastCheck) <= 1

\* C15 as stated: when the stream fed to process_chunk since the reset state is
\* N >= 3 speech chunks followed by M non-speech chunks, one segment has been
\* emitted if N + silence_chunks >= min_speech_chunks and M >= silence_chunks,
\* and none otherwise; the segment emitted is (N + silence_chunks) chunks long
\* (nothing precedes the speech run, so the pre-roll adds nothing).
C15_SegmentEmission ==
    (vadOut.shaped /\ vadOut.speechRun >= ActivationChunks) =>
        LET N == vadOut.speechRun
            M == vadOut.silenceRun
            emits == /\ N + vad.silence_chunks >= vad.min_speech_chunks
                     /\ M >= vad.silence_chunks
        IN  /\ vadOut.nEmitted = IF emits THEN 1 ELSE 0
            /\ vadOut.result # <<>> =>
                   ByteLen(vadOut.result) = (N + vad.silence_chunks) * ChunkBytes

\* C16: flush() returns the concatenation of the chunks of the segment in
\* progress when the detector is Speaking and has accumulated at least
\* min_speech_chunks chunks, and nothing otherwise; reset() returns nothing;
\* either call leaves the detector Quiet with both counters zero and the ring
\* buffer and accumulator empty, so that a flush() right after it returns
\* nothing.
C16_FlushAndReset ==
    [][(vadOut'.op \in {"flush", "reset"}) =>
          /\ vadOut'.result =
                 IF /\ vadOut'.op = "flush"
                    /\ vad.is_speech
                    /\ Len(vad.speech_buffer) >= vad.min_speech_chunks
                 THEN Join(vad.speech_buffer)
                 ELSE <<>>
          /\ ~vad'.is_speech
          /\ vad'.speech_chunks_count = 0
          /\ vad'.silence_chunks_count = 0
          /\ vad'.ring_buffer = <<>>
          /\ vad'.speech_buffer = <<>>
          /\ VadFlush(vad').result = <<>>]_vars

\* flush() has returned a segment that was in progress.
C16_Witness ==
    /\ vadOut.op = "flush"
    /\ Len(vadOut.result) >= vad.min_speech_chunks
    /\ vadOut.result # <<>>

\* The normalized text of the call recorded in inj.
InjNormalized == Normalize(inj.text, add_trailing_space, add_trailing_newline)

\* C17: inject_text_fast submits nothing for an empty text, and otherwise one
\* SendInput call of exactly two events per character of the normalized text, in
\* the order of the characters, a key-down immediately followed by the key-up of
\* the same key; a newline gives Enter events (virtual key 0x0D, no unicode
\* flag), every other character gives unicode events with virtual key 0.
C17_FastBatchStructure ==
    (inj.fn = "fast") =>
        IF inj.text = <<>> THEN inj.calls = <<>>
        ELSE /\ Len(inj.calls) = 1
             /\ LET ev == inj.calls[1].events
                     t  == InjNormalized
                 IN  /\ Len(ev) = 2 * Len(t)
                     /\ \A i \in 1..Len(t) :
                           /\ ~ev[2 * i - 1].keyup
                           /\ ev[2 * i].keyup
                           /\ ev[2 * i] = [ev[2 * i - 1] EXCEPT !.keyup = TRUE]
                           /\ IF t[i] = NEWLINE
                              THEN ev[2 * i].vk = 13 /\ ~ev[2 * i].unicode
                              ELSE ev[2 * i].vk = 0 /\ ev[2 * i].unicode

\* A batched call for a text of three characters with a newline in the middle.
C17_Witness ==
    /\ inj.fn = "fast"
    /\ Len(inj.text) = 3
    /\ inj.text[2] = NEWLINE
    /\ inj.text[1] # NEWLINE
    /\ Len(inj.calls) = 1
    /\ Len(inj.calls[1].events) >= 6

\* What the call recorded in inj appended to its text.
InjAdded == SubSeq(InjNormalized, Len(inj.text) + 1, Len(InjNormalized))

\* C18: for a non-empty text and any setting of the two flags the injected text
\* is the input followed by at most one added space and at most one added
\* newline; the space is added only if add_trailing_space is set and the input
\* does not end with a space, the newline only if add_trailing_newline is set and
\* the input does not end with a newline; normalizing the result again adds
\* nothing.
C18_NormalizationIdempotent ==
    (inj.fn # "none" /\ inj.text # <<>>) =>
        /\ SubSeq(InjNormalized, 1, Len(inj.text)) = inj.text
        /\ InjAdded \in {<<>>, <<SPACE>>, <<NEWLINE>>, <<SPACE, NEWLINE>>}
        /\ (InjAdded # <<>> /\ Head(InjAdded) = SPACE)
              => (add_trailing_space /\ ~EndsWith(inj.text, SPACE))
        /\ EndsWith(InjAdded, NEWLINE)
              => (add_trailing_newline /\ ~EndsWith(inj.text, NEWLINE))
        /\ Normalize(InjNormalized, add_trailing_space, add_trailing_newline)
              = InjNormalized
        /\ Len(inj.calls) = (IF inj.fn = "fast" THEN 1 ELSE Len(InjNormalized))

\* C19: the key-down scan codes of the unicode events of a call are the UTF-16
\* encoding of the injected text (newlines apart, which go as Enter), a
\* character above U+FFFF giving its two surrogate code units.
C19_ScanCodesAreUtf16 ==
    (inj.fn # "none") =>
        LET RECURSIVE Flatten(_)
            Flatten(calls) == IF calls = <<>> THEN <<>>
                              ELSE Head(calls).events \o Flatten(Tail(calls))
            RECURSIVE Utf16(_)
            Utf16(t) ==
                IF t = <<>> THEN <<>>
                ELSE (IF Head(t) = NEWLINE THEN <<>>
                      ELSE IF Head(t) < 65536 THEN <<Head(t)>>
                      ELSE <<55296 + ((Head(t) - 65536) \div 1024),
                             56320 + ((Head(t) - 65536) % 1024)>>)
                     \o Utf16(Tail(t))
            IsDown(e) == e.unicode /\ ~e.keyup
            downs == SelectSeq(Flatten(inj.calls), IsDown)
        IN  [i \in 1..Len(downs) |-> downs[i].scan] = Utf16(InjNormalized)

\* C20: every SendInput call of an injection (one per character, Enter, or the
\* batch) that accepted fewer events than were submitted is reported by a
\* warning; the injection goes on without a retry, making exactly the calls it
\* makes when everything is accepted.
C20_PartialDeliveryWarned ==
    (inj.fn # "none") =>
        /\ \A i \in 1..Len(inj.calls) :
              (inj.calls[i].accepted < Len(inj.calls[i].events)) => inj.calls[i].warned
        /\ Len(inj.calls) = (IF inj.text = <<>> THEN 0
                             ELSE IF inj.fn = "fast" THEN 1
                             ELSE Len(InjNormalized))

\* C21 as stated: each reported level lies in [0, 1]; after a chunk the peak is
\* at least the chunk's RMS, a louder chunk raising it to its RMS and any other
\* chunk letting it decay by the fixed factor; the level is 0 whenever the peak
\* is at or below the floor.
C21_PeakAtLeastRms ==
    [][(cap'.op = "chunk" /\ cap'.arrived = cap.arrived + 1) =>
          /\ cap'.level \in 0..1000
          /\ rms_peak' >= cap'.rms
          /\ (cap'.rms > rms_peak) => rms_peak' = cap'.rms
          /\ (rms_peak' <= 100) => cap'.level = 0]_vars

\* C21, amended: each reported level lies in [0, 1]; a chunk louder than the
\* peak raises the peak to its RMS in that update, any other chunk makes the
\* peak 0.998 times what it was (so the peak may end up below that chunk's
\* RMS, but never below 0.998 times it); the level is 0 whenever the peak is at
\* or below the floor and 1 whenever the chunk's RMS is at least the peak above
\* the floor.
C21_AdaptiveLevel ==
    [][(cap'.op = "chunk" /\ cap'.arrived = cap.arrived + 1) =>
          /\ cap'.level \in 0..1000
          /\ (cap'.rms > rms_peak) => rms_peak' = cap'.rms
          /\ (cap'.rms <= rms_peak) =>
                /\ 1000 * rms_peak' <= 998 * rms_peak
                /\ 998 * rms_peak < 1000 * (rms_peak' + 1)
          /\ 1000 * rms_peak' + 999 >= 998 * cap'.rms
          /\ (rms_peak' <= 100) => cap'.level = 0
          /\ (rms_peak' > 100 /\ cap'.rms >= rms_peak') => cap'.level = 1000]_vars

\* A chunk as loud as the peak was processed after the peak had decayed to the
\* floor, and the level reported for it is 0.
C21_Witness ==
    /\ cap.op = "chunk"
    /\ cap.arrived > SilenceRun
    /\ rms_peak <= 100
    /\ cap.rms = 80
    /\ cap.level = 0

\* C22: start_stream while the stream is open opens no second stream and changes
\* nothing, stop_stream while it is not open changes nothing, and after any
\* sequence of start_stream / stop_stream calls at most one device stream is
\* open and is_recording is true exactly when a stream is open.
C22_StreamLifecycleIdempotent ==
    [][/\ streams' <= 1
       /\ stream_open' <=> (streams' = 1)
       /\ (cap.ctl = "start_stream" /\ cap'.ctl = "unlock" /\ stream_open)
             => UNCHANGED <<stream_open, stream, streams, is_buffering,
                            audio_buffer, rms_peak>>
       /\ (cap.ctl = "stop_stream" /\ cap'.ctl = "unlock" /\ ~stream_open)
             => UNCHANGED <<stream_open, stream, streams, is_buffering,
                            audio_buffer, rms_peak>>]_vars

\* C23: in every transcribe call the speech model is invoked with task
\* "transcribe"; a call made in translate mode invokes the model with the forced
\* language and passes a non-empty result through the translation step, and a
\* call made in transcribe mode runs no translation step, so the language is
\* forced exactly in the calls that translate.
C23_TranslateIsSeparateStep ==
    (stt.pc = "done") =>
        LET models == SelectSeq(stt.trace, LAMBDA c : c.call = "model")
            steps  == SelectSeq(stt.trace, LAMBDA c : c.call = "translate_text")
        IN  /\ \A i \in 1..Len(models) : models[i].task = "transcribe"
            /\ Len(models) <= 1 /\ Len(steps) <= Len(models)
            /\ \A i \in 1..Len(models) :
                  /\ (models[i].language = "ko") <=> (stt.langTask = "translate")
                  /\ (steps # <<>>) => models[i].language = "ko"
                  /\ (models[i].language = "ko" /\ models[i].text # <<>>)
                        => steps # <<>>

\* How far a background thread is in _process_audio.
PcRank(pc) ==
    CASE pc = "wait" -> 0
      [] pc = "transcribe" -> 1
      [] pc = "inject" -> 2
      [] OTHER -> 3

\* C24: a step starts at most one background thread, and only as the release
\* that ends a session, handing it that session's audio and emptying the buffer;
\* a thread only moves forward through _process_audio, so it calls transcribe
\* exactly once (consuming its audio, whatever the outcome) and the injector at
\* most once, with the non-empty text transcribe returned; it leaves only from
\* its finally block, after its one transcribe call.
C24_OneTaskOneTranscribeOneInject ==
    [][/\ Len(tasks') <= Len(tasks) + 1
       /\ \A t \in InFlight :
              /\ Len(tasks[t].handed) <= 1
              /\ tasks[t].pc \in {"wait", "transcribe"} =>
                     tasks[t].outcome = "none" /\ tasks[t].handed = <<>>
              /\ PcRank(tasks[t].pc) >= 2 =>
                     tasks[t].outcome # "none" /\ tasks[t].audio = <<>>
              /\ tasks[t].handed # <<>> => tasks[t].handed[1].text # <<>>
       /\ Len(tasks') = Len(tasks) + 1 =>
              /\ is_recording /\ ~is_recording'
              /\ audio_buffer' = <<>>
              /\ SubSeq(tasks', 1, Len(tasks)) = tasks
              /\ tasks'[Len(tasks')] = NewTask(Join(audio_buffer))
       /\ (Len(tasks') = Len(tasks) /\ tasks' # tasks) =>
              \E t \in InFlight :
                  /\ \A u \in InFlight \ {t} : tasks'[u] = tasks[u]
                  /\ PcRank(tasks'[t].pc) > PcRank(tasks[t].pc)
                  /\ tasks[t].pc # "transcribe" =>
                         /\ tasks'[t].outcome \in {tasks[t].outcome, "inject_raised"}
                         /\ tasks'[t].text = tasks[t].text
                  /\ IF tasks[t].pc = "inject"
                     THEN /\ tasks[t].text # <<>>
                          /\ Len(tasks'[t].handed) = 1
                          /\ tasks'[t].handed[1].text = tasks[t].text
                     ELSE tasks'[t].handed = tasks[t].handed
       /\ Len(tasks') < Len(tasks) =>
              \E t \in InFlight :
                  /\ tasks' = Remove(tasks, t)
                  /\ tasks[t].pc \in {"errsleep", "finally"}
      ]_vars

\* A thread whose transcription was empty is in its finally block, having
\* consumed its audio and handed the injector nothing, while the thread of the
\* next session waits with its own audio.
C24_Witness ==
    /\ Len(tasks) = 2
    /\ tasks[1].pc = "finally"
    /\ tasks[1].outcome # "none"
    /\ tasks[1].text = <<>>
    /\ tasks[1].handed = <<>>
    /\ tasks[1].audio = <<>>
    /\ tasks[2].pc = "wait"
    /\ tasks[2].audio # <<>>

C26_InjectionFollowsSessionOrder ==
    (/\ mark.pos # 0
     /\ tasks[mark.pos].handed # <<>>
     /\ tasks[mark.pos].handed[1].typed # <<>>) => ~mark.overtaken

\* C27 as stated: once the hotkey is not held and every handler thread spawned
\* for it has finished, the orchestrator is not recording and capture is not
\* buffering.
C27_RecordingTracksHotkey ==
    (~hotkey_active /\ handlers = <<>>) => (~is_recording /\ ~is_buffering)

\* C28 as stated: once the hotkey is released, every handler thread has finished
\* and no session is recording, the output's mute state is the one the user had
\* set: each unmute() decided with the flag its own session's mute() wrote.
C28_MuteFlagNeverStale ==
    (~hotkey_active /\ handlers = <<>> /\ ~is_recording) => sysMuted = preMuted

\* C29 as stated: what stop_buffering returns holds only chunks that arrived
\* after its matching start_buffering: no chunk the device delivered before the
\* session started appears in the session's result.
C29_SessionIsolation ==
    \A i \in 1..Len(lastResult) : lastResult[i] > cap.sessionStart

\* C30 as stated: whenever the control thread is between the statements of
\* start_buffering or stop_buffering, or the device thread is between the
\* callback's read of the buffering flag and its append, AudioCapture's lock is
\* held.
C30_SharedStateLockProtected ==
    (\/ cap.ctl \in {"sb_peak", "sb_flag", "pb_join", "pb_clear"}
     \/ cap.cb \in {"check", "append"}) => capture_lock # "free"

\* C31: for the text and flags of the call made, the SendInput calls of
\* inject_text are one two-event call per character of the normalized text, and
\* their events, concatenated in order, are exactly the one batch
\* inject_text_fast submits (nothing when it submits nothing); the call that
\* was made, on either path, submitted these events.
C31_PacedEqualsBatched ==
    (inj.fn # "none") =>
        LET RECURSIVE Flatten(_)
            Flatten(calls) == IF calls = <<>> THEN <<>>
                              ELSE Head(calls).events \o Flatten(Tail(calls))
            paced == InjectText(inj.text, add_trailing_space, add_trailing_newline,
                                [i \in 1..Len(InjNormalized) |-> 2])
            fast == InjectTextFast(inj.text, add_trailing_space,
                                   add_trailing_newline, 2 * Len(InjNormalized))
        IN  /\ \A i \in 1..Len(paced) : Len(paced[i].events) = 2
            /\ Len(fast) <= 1
            /\ Flatten(paced) = Flatten(fast)
            /\ Flatten(inj.calls) = Flatten(fast)
            /\ Flatten(inj.calls) = Flatten(paced)

\* A paced call for a text with a newline in the middle and a character above
\* U+FFFF, with a trailing newline added.
C31_Witness ==
    /\ inj.fn = "paced"
    /\ add_trailing_newline
    /\ Len(inj.text) = 3
    /\ inj.text[2] = NEWLINE
    /\ inj.text[3] >= WordRange
    /\ Len(inj.calls) >= 4

\* C32: a process_chunk call made in Quiet moves to Speaking exactly when the
\* chunk is classified as speech and the two chunks before it were counted; a
\* non-speech chunk sets the consecutive-speech counter to zero and a speech
\* chunk short of the third adds one.  At the step to Speaking the accumulator
\* becomes the most recent chunks, the current one included, up to the pre-roll
\* capacity and in arrival order, and the ring buffer becomes empty; at any
\* other step in Quiet these chunks are the ring buffer.
C32_QuietToSpeaking ==
    [][(vadOut'.op = "process" /\ ~vad.is_speech) =>
          LET n == vadOut'.nFed
              sp == vadOut'.speech
              third == sp /\ vad.speech_chunks_count = ActivationChunks - 1
              k == IF Len(vad.ring_buffer) + 1 <= vad.pre_pad_chunks
                   THEN Len(vad.ring_buffer) + 1 ELSE vad.pre_pad_chunks
              recent == [i \in 1..k |-> ChunkOf(n - k + i)]
          IN  /\ vad'.is_speech <=> third
              /\ vad.speech_chunks_count < ActivationChunks
              /\ ~sp => vad'.speech_chunks_count = 0
              /\ sp => vad'.speech_chunks_count = vad.speech_chunks_count + 1
              /\ third => /\ vad'.speech_buffer = recent
                          /\ vad'.ring_buffer = <<>>
              /\ ~third => /\ vad'.ring_buffer = recent
                           /\ vad'.speech_buffer = vad.speech_buffer]_vars

\* The detector has just moved to Speaking with a full ring buffer: the
\* accumulator is the ten most recent of more than ten chunks.
C32_Witness ==
    /\ vadOut.op = "process"
    /\ vad.is_speech
    /\ vad.pre_pad_chunks = 10
    /\ vadOut.nFed > 10
    /\ vad.ring_buffer = <<>>
    /\ vad.speech_buffer = [i \in 1..10 |-> ChunkOf(vadOut.nFed - 10 + i)]

\* C33: a process_chunk call made in Speaking appends the chunk to the
\* accumulator whatever its classification; a speech chunk sets the silence
\* counter to zero and a non-speech chunk adds one; the segment ends exactly
\* when that makes the counter reach silence_chunks, the value returned then
\* being the accumulator with the chunk (or nothing if it is shorter than
\* min_speech_chunks); a call that stays in Speaking returns nothing and leaves
\* the counter below silence_chunks.
C33_SpeakingUntilSilence ==
    [][(vadOut'.op = "process" /\ vad.is_speech) =>
          LET sp == vadOut'.speech
              buf == Append(vad.speech_buffer, ChunkOf(vadOut'.nFed))
              ends == ~sp /\ vad.silence_chunks_count + 1 >= vad.silence_chunks
          IN  /\ vad'.is_speech <=> ~ends
              /\ vad.silence_chunks_count < vad.silence_chunks
              /\ ~ends =>
                     /\ vad'.speech_buffer = buf
                     /\ vad'.silence_chunks_count =
                            (IF sp THEN 0 ELSE vad.silence_chunks_count + 1)
                     /\ vad'.silence_chunks_count < vad.silence_chunks
                     /\ vadOut'.result = <<>>
              /\ ends =>
                     /\ vad.silence_chunks_count + 1 = vad.silence_chunks
                     /\ vadOut'.result =
                            (IF Len(buf) >= vad.min_speech_chunks THEN Join(buf)
                             ELSE <<>>)
                     /\ vad'.speech_buffer = <<>>
                     /\ vad'.silence_chunks_count = 0]_vars

\* A segment in progress went through a pause that a speech chunk interrupted,
\* and is now one non-speech chunk away from its end.
C33_Witness ==
    /\ vadOut.op = "process"
    /\ vad.is_speech
    /\ ~vadOut.speech
    /\ ~vadOut.shaped
    /\ vad.silence_chunks_count = vad.silence_chunks - 1
    /\ Len(vad.speech_buffer) > vad.pre_pad_chunks + vad.silence_chunks

\* C34: before and after every process_chunk, reset and flush call, in Quiet
\* the accumulator is empty and the consecutive-speech counter is below 3, in
\* Speaking the ring buffer is empty, and the ring buffer holds at most
\* pre_pad_chunks chunks; a segment returned by a call holds each of its chunks
\* once, in arrival order, and only chunks that come after the last chunk of
\* every segment returned before, so no chunk is in two segments.
C34_SegmenterStructure ==
    [][LET Structure(v) ==
               /\ ~v.is_speech => /\ v.speech_buffer = <<>>
                                  /\ v.speech_chunks_count < ActivationChunks
               /\ v.is_speech => v.ring_buffer = <<>>
               /\ Len(v.ring_buffer) <= v.pre_pad_chunks
           seg == vadOut'.result
       IN  /\ Structure(vad)
           /\ Structure(vad')
           /\ seg # <<>> =>
                  /\ seg[1] > vadOut.emittedUpTo
                  /\ \A i \in 1..(Len(seg) - 1) : seg[i] < seg[i + 1]
                  /\ seg[Len(seg)] <= vadOut'.nFed
                  /\ vadOut'.emittedUpTo = seg[Len(seg)]]_vars

\* A second segment has just been returned since the detector was last reset.
C34_Witness ==
    /\ vadOut.op = "process"
    /\ vadOut.nEmitted = 2
    /\ vadOut.result # <<>>
    /\ ~vad.is_speech
    /\ vadOut.emittedUpTo = vadOut.nFed

\* C35 as stated: the hotkey manager starts its callbacks in strict alternation
\* beginning with on_press, one per change of the held state; and the callbacks
\* take effect in the order in which they were dispatched: while the oldest
\* live handler has not yet executed its first statement, no handler
\* dispatched after it executes a statement.
C35_DispatchOrderKept ==
    [][/\ Len(handlers') = Len(handlers) + 1 =>
              /\ handlers'[Len(handlers')].kind =
                     (IF hotkey_active THEN "release" ELSE "press")
              /\ hotkey_active' = ~hotkey_active
       /\ hotkey_active' # hotkey_active => Len(handlers') = Len(handlers) + 1
       /\ (Len(handlers) >= 2 /\ handlers[1].pc = "check") =>
              \/ handlers' = Tail(handlers)
              \/ /\ Len(handlers') >= Len(handlers)
                 /\ SubSeq(handlers', 2, Len(handlers)) = Tail(handlers)]_vars

\* C36 as stated: whenever a session is recording (handlers run to completion
\* here, so none is mid-execution) the tray shows 'listening' and the overlay the
\* recording state, whatever background threads of earlier sessions do.
C36_StatusAgreesWithRecording ==
    is_recording => (trayStatus = "listening" /\ overlayCmd = "recording")

\* C37 as stated: in a transcribe call that reaches the translation decision
\* (the model returned a text that is not blank), the task value that chose the
\* language and the task value that decided on the translation step are the
\* same, so the model was given the forced language exactly when the
\* translation step ran.
C37_OneConsistentTask ==
    (stt.pc = "done" /\ stt.outcome \in {"ok", "translate_failed"}) =>
        /\ stt.langTask = stt.stepTask
        /\ (stt.trace[1].language = "ko") <=> (Len(stt.trace) = 2)

\* C38 as stated: once stop() has run with a working mute control (its forced
\* unmute done), the output is unmuted and stays so, whatever the handler
\* threads that were in flight when stop() was called go on to do.
C38_ShutdownUnmuteIsFinal ==
    (started /\ ~running /\ mute_initialized) => ~sysMuted

\* C39 as stated: whenever no thread is inside start_stream or stop_stream,
\* AudioCapture is recording if and only if it holds a stream object, also
\* after a start_stream in which creating or starting the stream raised.
C39_RecordingIffStreamHeld ==
    (capture_lock = "free") => (stream_open <=> stream)

=============================================================================
